---- MODULE Spec2Model ----
(***************************************************************************)
(* A model of the vector-store resilience layer                            *)
(* (src/utils/vector_database.py, VectorDatabaseManager), of the           *)
(* retrieval-and-ranking pipeline (src/utils/document_processor.py,        *)
(* DocumentProcessor.search_similar_content), of answering, of the remote  *)
(* calls and of ingestion.                                                 *)
(*                                                                         *)
(* Spec      : the VectorDatabaseManager state machine.  One action per    *)
(*             public method, each the whole method including the recovery *)
(*             protocol of _safe_collection_operation; IndexFault is the   *)
(*             environment (the persistent index going bad between calls). *)
(* SpecRank  : search_similar_content applied to bounded inputs.           *)
(* SpecAnswer: DocumentProcessor.answer_question and                       *)
(*             AIProcessor.answer_question applied to bounded inputs.      *)
(* SpecRemote: one call of the embedding or generative service             *)
(*             (src/utils/ai_processor.py), one action per pass of the     *)
(*             loop of _retry_with_backoff; SpecRemoteFair adds that the   *)
(*             loop is scheduled.                                          *)
(* SpecIngest: process_pdf_document, one action for the start of a         *)
(*             document and one per page (_process_png_page).              *)
(*                                                                         *)
(* Similarities are fixed-point integers: Scale units make 1.0, so one     *)
(* unit is 0.00001 and a 3-decimal value is a multiple of Scale \div 1000. *)
(***************************************************************************)
EXTENDS Integers, Sequences, FiniteSets, TLC

VARIABLES
    client,       \* self.client: "None" or "client"
    collection,   \* self.collection: "None" or "collection"
    index,        \* what the index behind the collection answers: "ok" or the message it raises
    records,      \* the embedding records held by the collection
    nextId,       \* number of store-generated ids (uuid4) handed out so far
    lastCall,     \* ghost: what the last public call did and returned
    page_elements,\* relational rows PageElement joined with DocumentPage.page_number
    query,        \* the inputs of the last search_similar_content call
    trace,        \* ghost: all_similar_elements of the last search_similar_content call
    evidence,     \* the value the last search_similar_content call returned
    elements_context, \* the evidence list handed to answering
    answer,       \* what the last answer_question call did and returned
    remote,       \* one call of the embedding or generative service in progress
    relational,   \* the committed rows of the relational store
    ingest,       \* the process_pdf_document call in progress, with a ghost log
    request,      \* ghost: the last delete_document or search call and its result
    race          \* a force_reset in progress and a search made beside it

vars == <<client, collection, index, records, nextId, lastCall,
          page_elements, query, trace, evidence,
          elements_context, answer, remote, relational, ingest,
          request, race>>

storeVars == <<client, collection, index, records, nextId, lastCall>>
rankVars == <<page_elements, query, trace, evidence>>
answerVars == <<elements_context, answer>>
remoteVars == <<remote>>
ingestVars == <<relational, ingest, request>>

\* The values of the variables a specification leaves alone.
NoAnswer == [entry |-> "none", kind |-> "none"]
NoRemote == [caller |-> "none", status |-> "none"]
NoRelational ==
    [documents |-> {}, pages |-> {}, elements |-> {},
     page_seq |-> 0, element_seq |-> 0]
NoIngest == [status |-> "idle", document_id |-> "None", page_count |-> 0,
             log |-> <<>>, error |-> "", issued |-> {}]
NoRequest == [document_id |-> "None", op |-> "none", ret |-> "none",
              items |-> <<>>]

AnswerUnused == elements_context = <<>> /\ answer = NoAnswer
RemoteUnused == remote = NoRemote
IngestUnused ==
    relational = NoRelational /\ ingest = NoIngest /\ request = NoRequest
NoRace == [document_id |-> "None", ret |-> "none", reset |-> "idle",
           wiped |-> FALSE, healthy |-> FALSE, pre |-> {}, search |-> "idle",
           ids |-> {}, during |-> FALSE]

-----------------------------------------------------------------------------
(* Bounds of the model *)

\* Calls of add_element_embedding in one behaviour.
MaxAdds == 2

Docs == {"D1", "D2"}
ElementIds == {1, 2}
TopKs == {1, 5}

-----------------------------------------------------------------------------
(* The index and its errors *)

\* The keywords _safe_collection_operation looks for in the lowercased message.
CorruptionKeywords ==
    {"nothing found on disk", "hnsw segment reader", "corrupted", "invalid"}

NotInitialized == "Vector DB not initialized."

\* Messages the index raises while it is in a bad state.  The first two carry a
\* corruption keyword, the last two do not.
IndexErrors ==
    {"nothing found on disk", "invalid", "database is locked", "does not exist"}

IndexStates == {"ok"} \cup IndexErrors

\* any(keyword in error_str for keyword in [...])
IsCorruption(msg) == msg \in CorruptionKeywords

\* What a freshly created collection may answer on its next use.
FreshStates == IndexStates \ {"does not exist"}

Min(a, b) == IF a < b THEN a ELSE b

NoIds == {}

Matching(recs, field, v) == {r \in recs : r[field] = v}

\* where_clause: document_id = d, or no filter when document_id is None.
Scope(recs, d) == IF d = "None" THEN recs ELSE Matching(recs, "document_id", d)

-----------------------------------------------------------------------------
(* The operations handed to _safe_collection_operation *)

Ops == {"add", "search", "delete_element", "delete_document", "stats", "get"}

\* The closure operation(): its effect on the records and the value it returns.
\* arg = [e, d, k, sel, t]; sel is the store's choice of the n_results
\* neighbours, t the plain_text handed to an add.
\* removed is a ghost field: how many records a delete matched.
\* variant "code" is the closures as written; "upsert" keys the added record
\* by its element_id, so that an add replaces the record of that element.
ApplyOpCore(op, arg, recs, nid, variant) ==
    CASE op = "add" ->
           [records |-> (IF variant = "upsert"
                         THEN recs \ Matching(recs, "element_id", arg.e)
                         ELSE recs)
                        \cup {[document_id |-> arg.d, id |-> nid,
                               element_id |-> arg.e,
                               plain_text |-> arg.t]},
            ids |-> NoIds, n |-> 0, added |-> 1, removed |-> 0]
      [] op = "search" ->
           [records |-> recs,
            ids |-> {r.id : r \in arg.sel \cap Scope(recs, arg.d)},
            n |-> 0, added |-> 0, removed |-> 0]
      [] op = "delete_element" ->
           [records |-> recs \ Matching(recs, "element_id", arg.e),
            ids |-> NoIds, n |-> 0, added |-> 0,
            removed |-> Cardinality(Matching(recs, "element_id", arg.e))]
      [] op = "delete_document" ->
           [records |-> recs \ Matching(recs, "document_id", arg.d),
            ids |-> NoIds, n |-> 0, added |-> 0,
            removed |-> Cardinality(Matching(recs, "document_id", arg.d))]
      [] op = "stats" ->
           [records |-> recs, ids |-> NoIds, n |-> Cardinality(recs), added |-> 0,
            removed |-> 0]
      [] op = "get" ->
           [records |-> recs, ids |-> {r.id : r \in recs}, n |-> 0, added |-> 0,
            removed |-> 0]

ApplyOpUpsert(op, arg, recs, nid) == ApplyOpCore(op, arg, recs, nid, "upsert")

ApplyOp(op, arg, recs, nid) == ApplyOpCore(op, arg, recs, nid, "code")

-----------------------------------------------------------------------------
(* _reset_collection and _reset_database *)

\* delOk: client.delete_collection succeeded (its failure is swallowed);
\* createOk: client.create_collection succeeded (its failure is re-raised);
\* post: what the fresh collection answers afterwards.
\* variant "code" is the method as written; with "keep" the collection that
\* is created holds the records of the old one.
ResetCollectionCore(idx, recs, delOk, createOk, post, variant) ==
    [index |-> IF createOk THEN post
               ELSE IF delOk THEN "does not exist" ELSE idx,
     records |-> IF variant = "keep" /\ createOk THEN recs
                 ELSE IF delOk \/ createOk THEN {} ELSE recs,
     raised |-> ~createOk]

ResetCollectionKeeping(idx, recs, delOk, createOk, post) ==
    ResetCollectionCore(idx, recs, delOk, createOk, post, "keep")

ResetCollection(idx, recs, delOk, createOk, post) ==
    ResetCollectionCore(idx, recs, delOk, createOk, post, "code")

\* moveOk: shutil.move to the backup path succeeded; rmOk: shutil.rmtree
\* succeeded (tried only when the move failed); clientOk: makedirs and
\* PersistentClient succeeded; createOk: create_collection succeeded, which it
\* cannot when the old store is still in place and still holds the collection.
\* variant "code" is the method as written; "getorcreate" obtains the
\* collection with get_or_create_collection, which succeeds on a store left in
\* place and keeps its records.
ResetDatabaseCore(idx, recs, moveOk, rmOk, clientOk, createOk, post, variant) ==
    LET wiped == moveOk \/ rmOk
        made == IF variant = "getorcreate" THEN clientOk /\ createOk
                ELSE clientOk /\ createOk /\ (wiped \/ idx = "does not exist")
    IN [client |-> IF clientOk THEN "client" ELSE "None",
        collection |-> IF made THEN "collection" ELSE "None",
        index |-> IF made THEN post
                  ELSE IF wiped THEN "does not exist" ELSE idx,
        records |-> IF variant = "getorcreate"
                    THEN (IF wiped THEN {} ELSE recs)
                    ELSE IF wiped \/ made THEN {} ELSE recs,
        moved |-> IF moveOk THEN "moved" ELSE IF rmOk THEN "removed" ELSE "kept"]

ResetDatabaseGetOrCreate(idx, recs, moveOk, rmOk, clientOk, createOk, post) ==
    ResetDatabaseCore(idx, recs, moveOk, rmOk, clientOk, createOk, post,
                      "getorcreate")

ResetDatabase(idx, recs, moveOk, rmOk, clientOk, createOk, post) ==
    ResetDatabaseCore(idx, recs, moveOk, rmOk, clientOk, createOk, post, "code")

-----------------------------------------------------------------------------
(* _safe_collection_operation *)

\* The value of a call that did nothing.
NoCall ==
    [error |-> "", ids |-> NoIds, n |-> 0, added |-> 0, removed |-> 0,
     raised |-> FALSE, moved |-> "none", firstError |-> "", invocations |-> 0,
     resets |-> 0, resetOk |-> FALSE, retryOk |-> FALSE, retryIds |-> NoIds,
     dbResets |-> 0]

\* ch = [delOk, createOk, post]: the outcomes of the index calls made by
\* _reset_collection, should the recovery branch run.  variant "code" is the
\* method as written; the other variants each change one branch of it:
\*   "escalate": a failed collection reset runs _reset_database before raising;
\*   "again"   : a retry that raises a corruption signature is recovered again;
\*   "noretry" : the operation is not retried after the collection reset;
\*   "selfheal": a call that finds the collection unset resets the database
\*               and runs the operation on the fresh collection.
SafeCollectionOperationCore(op, arg, cl, coll, idx, recs, nid, ch, variant) ==
    LET same == [client |-> cl, collection |-> coll, index |-> idx, records |-> recs]
    IN
    IF coll = "None"
    THEN IF variant = "selfheal"
         THEN LET a == ApplyOp(op, arg, {}, nid)
              IN [client |-> "client", collection |-> "collection",
                  index |-> "ok", records |-> a.records, ids |-> a.ids,
                  n |-> a.n, added |-> a.added, removed |-> a.removed,
                  firstError |-> NotInitialized, invocations |-> 1,
                  dbResets |-> 1] @@ NoCall
         ELSE \* raise Exception("Vector DB not initialized."): no keyword in it
              [error |-> NotInitialized, raised |-> TRUE,
               firstError |-> NotInitialized] @@ same @@ NoCall
    ELSE IF idx = "ok"
    THEN LET a == ApplyOp(op, arg, recs, nid)
         IN [records |-> a.records, ids |-> a.ids, n |-> a.n, added |-> a.added,
             removed |-> a.removed, invocations |-> 1] @@ same @@ NoCall
    ELSE IF ~IsCorruption(idx)
    THEN [error |-> idx, raised |-> TRUE, firstError |-> idx,
          invocations |-> 1] @@ same @@ NoCall
    ELSE LET rc == ResetCollection(idx, recs, ch.delOk, ch.createOk, ch.post)
             after == [client |-> cl, collection |-> coll,
                       index |-> rc.index, records |-> rc.records]
         IN IF rc.raised
            THEN \* except recovery_error: print; then raise e
                 IF variant = "escalate"
                 THEN LET db == ResetDatabase(rc.index, rc.records, TRUE, TRUE,
                                              TRUE, TRUE, ch.post)
                      IN [client |-> db.client, collection |-> db.collection, index |-> db.index,
                          records |-> db.records, error |-> idx, raised |-> TRUE,
                          moved |-> db.moved, firstError |-> idx,
                          invocations |-> 1, resets |-> 1,
                          dbResets |-> 1] @@ NoCall
                 ELSE [error |-> idx, raised |-> TRUE, firstError |-> idx,
                       invocations |-> 1, resets |-> 1] @@ after @@ NoCall
            ELSE IF variant = "noretry"
            THEN [error |-> idx, raised |-> TRUE, firstError |-> idx,
                  invocations |-> 1, resets |-> 1, resetOk |-> TRUE]
                 @@ after @@ NoCall
            ELSE IF rc.index = "ok"
            THEN LET a == ApplyOp(op, arg, rc.records, nid)
                 IN [records |-> a.records, ids |-> a.ids, n |-> a.n,
                     added |-> a.added, removed |-> a.removed, firstError |-> idx, invocations |-> 2,
                     resets |-> 1, resetOk |-> TRUE, retryOk |-> TRUE,
                     retryIds |-> a.ids] @@ after @@ NoCall
            ELSE \* the retry raised: caught as recovery_error, then raise e
                 IF variant = "again" /\ IsCorruption(rc.index)
                 THEN [error |-> idx, raised |-> TRUE, firstError |-> idx,
                       invocations |-> 3, resets |-> 2, resetOk |-> TRUE]
                      @@ after @@ NoCall
                 ELSE [error |-> idx, raised |-> TRUE, firstError |-> idx,
                       invocations |-> 2, resets |-> 1, resetOk |-> TRUE]
                      @@ after @@ NoCall

SafeCollectionOperationEscalating(op, arg, cl, coll, idx, recs, nid, ch) ==
    SafeCollectionOperationCore(op, arg, cl, coll, idx, recs, nid, ch, "escalate")

SafeCollectionOperationAgain(op, arg, cl, coll, idx, recs, nid, ch) ==
    SafeCollectionOperationCore(op, arg, cl, coll, idx, recs, nid, ch, "again")

SafeCollectionOperationNoRetry(op, arg, cl, coll, idx, recs, nid, ch) ==
    SafeCollectionOperationCore(op, arg, cl, coll, idx, recs, nid, ch, "noretry")

SafeCollectionOperationSelfHealing(op, arg, cl, coll, idx, recs, nid, ch) ==
    SafeCollectionOperationCore(op, arg, cl, coll, idx, recs, nid, ch, "selfheal")

SafeCollectionOperation(op, arg, cl, coll, idx, recs, nid, ch) ==
    SafeCollectionOperationCore(op, arg, cl, coll, idx, recs, nid, ch, "code")

-----------------------------------------------------------------------------
(* The public methods: what each returns *)

Ret(kind, ids, n, error) == [kind |-> kind, error |-> error, ids |-> ids, n |-> n]

\* The public methods with their try/except removed: the error reaches the caller.
PublicReturnNoCatch(op, r) ==
    IF r.raised THEN Ret("raised", NoIds, 0, r.error)
    ELSE CASE op \in {"add", "delete_element", "delete_document"} ->
                Ret("True", NoIds, 0, "")
           [] op \in {"search", "get"} -> Ret("result", r.ids, 0, "")
           [] op = "stats" -> Ret("stats", NoIds, r.n, "")

\* The public methods with a delete that matched no record reported as a
\* failure.
PublicReturnStrictDelete(op, r) ==
    CASE op \in {"add", "delete_element", "delete_document"} ->
           IF r.raised \/ (op # "add" /\ r.removed = 0)
           THEN Ret("False", NoIds, 0, "") ELSE Ret("True", NoIds, 0, "")
      [] op \in {"search", "get"} ->
           IF r.raised THEN Ret("None", NoIds, 0, "") ELSE Ret("result", r.ids, 0, "")
      [] op = "stats" ->
           IF r.raised THEN Ret("error_map", NoIds, 0, r.error)
           ELSE Ret("stats", NoIds, r.n, "")

\* The value a public method returns, given what _safe_collection_operation did.
PublicReturn(op, r) ==
    CASE op \in {"add", "delete_element", "delete_document"} ->
           IF r.raised THEN Ret("False", NoIds, 0, "") ELSE Ret("True", NoIds, 0, "")
      [] op \in {"search", "get"} ->
           IF r.raised THEN Ret("None", NoIds, 0, "") ELSE Ret("result", r.ids, 0, "")
      [] op = "stats" ->
           IF r.raised THEN Ret("error_map", NoIds, 0, r.error)
           ELSE Ret("stats", NoIds, r.n, "")

\* is_healthy: the collection is set and collection.count() does not raise.
IsHealthy(coll, idx) == coll # "None" /\ idx = "ok"

BoolRet(b) == IF b THEN Ret("True", NoIds, 0, "") ELSE Ret("False", NoIds, 0, "")

-----------------------------------------------------------------------------
(* Construction: initialize_database *)

\* idx0: the state of the index found on disk; clientOk: makedirs and
\* PersistentClient succeeded; rc, db: the outcomes of the calls made by
\* _reset_collection and _reset_database, should they run.
InitializeDatabase(idx0, clientOk, rc, db) ==
    LET viaDb(idx) ==
            LET d == ResetDatabase(idx, {}, db.moveOk, db.rmOk, db.clientOk,
                                   db.createOk, db.post)
            IN [client |-> d.client, collection |-> d.collection,
                index |-> d.index]
    IN IF ~clientOk THEN viaDb(idx0)
       ELSE IF idx0 \in {"ok", "does not exist"}
       THEN \* get_or_create_collection and the count() test succeed
            [client |-> "client", collection |-> "collection", index |-> "ok"]
       ELSE LET c == ResetCollection(idx0, {}, rc.delOk, rc.createOk, rc.post)
            IN IF c.raised THEN viaDb(c.index)
               ELSE [client |-> "client", collection |-> "collection",
                     index |-> c.index]

-----------------------------------------------------------------------------
(* The state machine of the vector store *)

NoArg == [d |-> "None", e |-> 0, t |-> "", sel |-> {}, k |-> 0]

Ghost(op, arg, ret, r) ==
    [op |-> op, ret |-> ret, arg |-> arg, removed |-> r.removed,
     moved |-> r.moved, firstError |-> r.firstError, invocations |-> r.invocations,
     resets |-> r.resets, resetOk |-> r.resetOk, retryOk |-> r.retryOk,
     retryIds |-> r.retryIds, dbResets |-> r.dbResets]

\* No search_similar_content call has been prepared.
NoQuery == [embedOk |-> TRUE, store |-> "None", dbFault |-> FALSE, top_k |-> 0,
            hits |-> <<>>]

\* The outcomes _reset_collection can have; one outcome stands for all
\* when the recovery branch cannot run, and post matters only after a create.
ResetChoices(coll, idx) ==
    IF coll # "None" /\ IsCorruption(idx)
    THEN {ch \in [delOk : BOOLEAN, createOk : BOOLEAN, post : FreshStates] :
             ch.createOk \/ ch.post = "ok"}
    ELSE {[delOk |-> TRUE, createOk |-> TRUE, post |-> "ok"]}

\* The outcomes _reset_database can have; post matters only after a create.
DatabaseChoices ==
    {ch \in [moveOk : BOOLEAN, rmOk : BOOLEAN, clientOk : BOOLEAN,
             createOk : BOOLEAN, post : FreshStates] :
        /\ (ch.clientOk /\ ch.createOk) \/ ch.post = "ok"
        /\ ch.moveOk => ch.rmOk}

\* One public method that goes through _safe_collection_operation.
Call(op, arg) ==
    \E ch \in ResetChoices(collection, index) :
        LET r == SafeCollectionOperation(op, arg, client, collection, index,
                     records, nextId + 1, ch)
        IN /\ client' = r.client
           /\ collection' = r.collection
           /\ index' = r.index
           /\ records' = r.records
           /\ nextId' = nextId + r.added
           /\ lastCall' = Ghost(op, arg, PublicReturn(op, r), r)
           /\ UNCHANGED <<rankVars, answerVars, remoteVars, ingestVars, race>>

AddElementEmbedding ==
    /\ nextId < MaxAdds
    /\ \E e \in ElementIds, d \in Docs :
           Call("add", [d |-> d, e |-> e, t |-> "text", sel |-> {}, k |-> 0])

SearchSimilarElements ==
    \E d \in Docs \cup {"None"}, k \in TopKs :
        \E sel \in SUBSET Scope(records, d) :
            /\ Cardinality(sel) = Min(k, Cardinality(Scope(records, d)))
            /\ Call("search", [d |-> d, e |-> 0, t |-> "", sel |-> sel, k |-> k])

DeleteElementEmbedding ==
    \E e \in ElementIds :
        Call("delete_element",
             [d |-> "None", e |-> e, t |-> "", sel |-> {}, k |-> 0])

DeleteDocumentEmbeddings ==
    \E d \in Docs :
        Call("delete_document",
             [d |-> d, e |-> 0, t |-> "", sel |-> {}, k |-> 0])

GetCollectionStats == Call("stats", NoArg)

GetCollectionData == Call("get", NoArg)

IsHealthyCall ==
    /\ lastCall' = Ghost("is_healthy", NoArg,
                         BoolRet(IsHealthy(collection, index)), NoCall)
    /\ UNCHANGED <<client, collection, index, records, nextId>>
    /\ UNCHANGED <<rankVars, answerVars, remoteVars, ingestVars, race>>

\* force_reset: _reset_database, then is_healthy on what it left.
ForceReset ==
    \E ch \in DatabaseChoices :
        LET db == ResetDatabase(index, records, ch.moveOk, ch.rmOk, ch.clientOk,
                                ch.createOk, ch.post)
        IN /\ client' = db.client
           /\ collection' = db.collection
           /\ index' = db.index
           /\ records' = db.records
           /\ lastCall' = Ghost("force_reset", NoArg,
                                BoolRet(IsHealthy(db.collection, db.index)),
                                [moved |-> db.moved, dbResets |-> 1] @@ NoCall)
           /\ UNCHANGED nextId
           /\ UNCHANGED <<rankVars, answerVars, remoteVars, ingestVars, race>>

\* Environment: the index behind a working collection goes bad with one of
\* errors, or a transient condition clears.
IndexFaultOf(errors) ==
    /\ \/ /\ index = "ok"
          /\ index' \in errors
       \/ /\ index = "database is locked"
          /\ index' = "ok"
    /\ lastCall' = Ghost("fault", NoArg, Ret("none", NoIds, 0, ""), NoCall)
    /\ UNCHANGED <<client, collection, records, nextId>>
    /\ UNCHANGED <<rankVars, answerVars, remoteVars, ingestVars, race>>

\* A deleted collection does not come back.
IndexFault == IndexFaultOf(IndexErrors \ {"does not exist"})

Init ==
    /\ \E idx0 \in IndexStates, clientOk \in BOOLEAN,
          rc \in ResetChoices("collection", "invalid"), db \in DatabaseChoices :
           LET st == InitializeDatabase(idx0, clientOk, rc, db)
           IN /\ client = st.client
              /\ collection = st.collection
              /\ index = st.index
    /\ records = {}
    /\ nextId = 0
    /\ lastCall = Ghost("init", NoArg, Ret("none", NoIds, 0, ""), NoCall)
    /\ page_elements = <<>>
    /\ query = NoQuery
    /\ trace = [all |-> <<>>, perPage |-> <<>>]
    /\ evidence = [kind |-> "pending", items |-> <<>>]
    /\ AnswerUnused
    /\ RemoteUnused
    /\ IngestUnused
    /\ race = NoRace

Next ==
    \/ AddElementEmbedding
    \/ SearchSimilarElements
    \/ DeleteElementEmbedding
    \/ DeleteDocumentEmbeddings
    \/ GetCollectionStats
    \/ GetCollectionData
    \/ IsHealthyCall
    \/ ForceReset
    \/ IndexFault

Spec == Init /\ [][Next]_vars

-----------------------------------------------------------------------------
(* search_similar_content: scores *)

MaxHits == 3

Scale == 10 ^ 5
Milli == Scale \div 1000

\* similarity_score > 0.5
RelevanceFloor == Scale \div 2

\* similarity_score *= 1.1
BoostNum == 11
BoostDen == 10

\* return final_results[:1]
ResultCap == 1

\* Cosine distances the store reports, in units of 1/Scale:
\* 0.05, 0.1, 0.3996, 0.4, 0.45, 0.4541, 0.4996, 0.5, 0.6.
DistSet == {5000, 10000, 39960, 40000, 45000, 45410, 49960, 50000, 60000}

\* round(x, 3) for x >= 0: to the nearest multiple of 0.001, ties to even.
Round3(x) ==
    LET q == x \div Milli
        r == x % Milli
    IN IF 2 * r < Milli THEN q * Milli
       ELSE IF 2 * r > Milli THEN (q + 1) * Milli
       ELSE IF q % 2 = 0 THEN q * Milli ELSE (q + 1) * Milli

\* similarity_score = 1 - distance
Similarity(d) == Scale - d

\* The boost applied to every element type.
BoostAll(etype, s) == Min((s * BoostNum) \div BoostDen, Scale)

\* The boost without the clamp to 1.0.
BoostNoClamp(etype, s) ==
    IF etype = "FLOWCHART" THEN (s * BoostNum) \div BoostDen ELSE s

\* if element_type == 'FLOWCHART': *= 1.1, then min(.., 1.0)
Boost(etype, s) ==
    IF etype = "FLOWCHART" THEN Min((s * BoostNum) \div BoostDen, Scale) ELSE s

\* The floor test with >= in place of >.
AboveFloorInclusive(b) == b >= RelevanceFloor

\* if similarity_score > 0.5
AboveFloor(b) == b > RelevanceFloor

-----------------------------------------------------------------------------
(* search_similar_content: the relational rows and the raw hits *)

NoRow == [element_type |-> "none", page_number |-> 0]

\* PageElement ids 1..4 are the ALL_TEXT and the FLOWCHART element of pages 1
\* and 2; id 5 has no row (the query .first() returns None).  Id 0 stands for
\* a metadata without element_id.
RankElementIds == 1..5
NoElementId == 0

TableByPage ==
    [eid \in RankElementIds |->
        IF eid = 5 THEN NoRow
        ELSE [element_type |-> IF eid % 2 = 1 THEN "ALL_TEXT" ELSE "FLOWCHART",
              page_number |-> (eid + 1) \div 2]]

RankTables == {TableByPage}

\* The store returns the nearest neighbours nearest first.
Nondecreasing(ds) == \A i \in 1..(Len(ds) - 1) : ds[i] <= ds[i + 1]

Hits(es, ds) == [i \in 1..Len(es) |-> [element_id |-> es[i], distance |-> ds[i]]]

\* The inputs of one search_similar_content call: whether the query embedding
\* was computed, what search_similar_elements returned ("None", or hits, which
\* may be empty), whether the relational lookup raises, and top_k.
RankInput(embedOk, store, dbFault, k, hits) ==
    [embedOk |-> embedOk, store |-> store, dbFault |-> dbFault, top_k |-> k,
     hits |-> hits]

\* The inputs drawn: no embedding; a store that failed; and hit lists of up
\* to min(top_k, MaxHits) hits.  A lookup that raises does so whatever the
\* hits are, and is drawn with one hit.
IsRankInput(q) ==
    \E k \in TopKs :
        \/ q = RankInput(FALSE, "None", FALSE, k, <<>>)
        \/ q = RankInput(TRUE, "None", FALSE, k, <<>>)
        \/ \E n \in 0..Min(k, MaxHits) :
             \E es \in [1..n -> RankElementIds \cup {NoElementId}],
                ds \in [1..n -> DistSet] :
                 /\ Nondecreasing(ds)
                 /\ \/ q = RankInput(TRUE, "hits", FALSE, k, Hits(es, ds))
                    \/ n = 1 /\ q = RankInput(TRUE, "hits", TRUE, k, Hits(es, ds))

-----------------------------------------------------------------------------
(* search_similar_content: the pipeline *)

\* The dict appended to all_similar_elements for hit i.  boosted (the score
\* before rounding) and pos (the hit's place in the retrieval order) are ghost
\* fields.
Candidate(i, hit, row) ==
    LET b == Boost(row.element_type, Similarity(hit.distance))
    IN [element_id |-> hit.element_id,
        element_type |-> row.element_type,
        page_number |-> row.page_number,
        similarity_score |-> Round3(b),
        boosted |-> b,
        pos |-> i]

\* Whether hit i is appended: it has an element_id, its row exists, and its
\* boosted score is above the floor.
Kept(hit, table) ==
    /\ hit.element_id # NoElementId
    /\ table[hit.element_id] # NoRow
    /\ AboveFloor(Boost(table[hit.element_id].element_type,
                        Similarity(hit.distance)))

RECURSIVE AllSimilarElementsFrom(_, _, _)
AllSimilarElementsFrom(i, hits, table) ==
    IF i > Len(hits) THEN <<>>
    ELSE (IF Kept(hits[i], table)
          THEN <<Candidate(i, hits[i], table[hits[i].element_id])>>
          ELSE <<>>)
         \o AllSimilarElementsFrom(i + 1, hits, table)

\* all_similar_elements as the loop leaves it.
AllSimilarElements(hits, table) == AllSimilarElementsFrom(1, hits, table)

\* x placed after every element whose score is at least x's: with the
\* elements taken left to right this is a stable descending sort.
InsertDesc(x, sorted) ==
    LET n == Cardinality({j \in 1..Len(sorted) :
                             sorted[j].similarity_score >= x.similarity_score})
    IN SubSeq(sorted, 1, n) \o <<x>> \o SubSeq(sorted, n + 1, Len(sorted))

RECURSIVE SortDescFrom(_, _, _)
SortDescFrom(i, seq, acc) ==
    IF i > Len(seq) THEN acc
    ELSE SortDescFrom(i + 1, seq, InsertDesc(seq[i], acc))

\* list.sort(key=similarity_score, reverse=True): stable, descending.
SortDesc(seq) == SortDescFrom(1, seq, <<>>)

RECURSIVE TopPerPageFrom(_, _, _)
TopPerPageFrom(i, seq, acc) ==
    IF i > Len(seq) THEN acc
    ELSE TopPerPageFrom(i + 1, seq,
            IF \E j \in 1..Len(acc) : acc[j].page_number = seq[i].page_number
            THEN acc ELSE Append(acc, seq[i]))

\* top_elements_per_page.values(): the first element seen of each page.
TopPerPage(seq) == TopPerPageFrom(1, seq, <<>>)

Take(seq, n) == SubSeq(seq, 1, Min(n, Len(seq)))

Result(kind, items) == [kind |-> kind, items |-> items]

\* What the call computes: all_similar_elements, top_elements_per_page and
\* the returned value.  variant "code" is the method as written; "nocatch"
\* lets an exception of the lookup reach the caller; "alltopk" returns the
\* sorted all_similar_elements[:top_k], without the per-page filter; "topk"
\* returns final_results[:top_k].
SearchSimilarContentCore(q, table, variant) ==
    LET none == [ret |-> Result("list", <<>>), all |-> <<>>, perPage |-> <<>>]
    IN IF ~q.embedOk THEN none
       ELSE IF q.store = "None" \/ q.hits = <<>> THEN none
       ELSE IF q.dbFault
       THEN IF variant = "nocatch"
            THEN [ret |-> Result("raised", <<>>), all |-> <<>>, perPage |-> <<>>]
            ELSE none
       ELSE LET all == AllSimilarElements(q.hits, table)
                perPage == TopPerPage(SortDesc(all))
                final == SortDesc(perPage)
            IN [ret |-> Result("list",
                               IF variant = "alltopk"
                               THEN Take(SortDesc(all), q.top_k)
                               ELSE IF variant = "topk"
                               THEN Take(final, q.top_k)
                               ELSE Take(final, ResultCap)), all |-> all,
                perPage |-> perPage]

SearchSimilarContentNoCatch(q, table) ==
    SearchSimilarContentCore(q, table, "nocatch")

SearchSimilarContentAllTopK(q, table) ==
    SearchSimilarContentCore(q, table, "alltopk")

SearchSimilarContentTopK(q, table) ==
    SearchSimilarContentCore(q, table, "topk")

SearchSimilarContentResult(q, table) ==
    SearchSimilarContentCore(q, table, "code")

-----------------------------------------------------------------------------
(* The specification of search_similar_content *)

Pending == Result("pending", <<>>)
NoTrace == [all |-> <<>>, perPage |-> <<>>]

SearchSimilarContent ==
    /\ evidence = Pending
    /\ LET out == SearchSimilarContentResult(query, page_elements)
       IN /\ evidence' = out.ret
          /\ trace' = [all |-> out.all, perPage |-> out.perPage]
    /\ UNCHANGED <<page_elements, query>>
    /\ UNCHANGED <<storeVars, answerVars, remoteVars, ingestVars, race>>

InitRank ==
    /\ client = "client"
    /\ collection = "collection"
    /\ index = "ok"
    /\ records = {}
    /\ nextId = 0
    /\ lastCall = Ghost("init", NoArg, Ret("none", NoIds, 0, ""), NoCall)
    /\ page_elements \in RankTables
    /\ IsRankInput(query)
    /\ trace = NoTrace
    /\ evidence = Pending
    /\ AnswerUnused
    /\ RemoteUnused
    /\ IngestUnused
    /\ race = NoRace

NextRank == SearchSimilarContent

SpecRank == InitRank /\ [][NextRank]_vars

-----------------------------------------------------------------------------
(* Properties of the vector store, checked under Spec *)

\* The last call went through _safe_collection_operation.
Wrapped == lastCall.op \in Ops

\* The value each public method returns when its operation failed.
FailureValue(op, error) ==
    CASE op \in {"add", "delete_element", "delete_document"} ->
           Ret("False", NoIds, 0, "")
      [] op \in {"search", "get"} -> Ret("None", NoIds, 0, "")
      [] op = "stats" -> Ret("error_map", NoIds, 0, error)

C2_Original ==
    (Wrapped /\ lastCall.resets = 1 /\ ~lastCall.resetOk) =>
        /\ lastCall.dbResets = 1
        /\ lastCall.moved \in {"moved", "removed"}

\* C2 amended: a collection reset that fails during recovery does not
\* escalate.  _reset_database is not run, the on-disk store is neither moved
\* nor removed, the operation is not retried, self.collection stays set, and
\* the public method returns its failure value.  The store-level reset runs
\* only in force_reset (and at construction).
C2_NoEscalation ==
    /\ (Wrapped /\ lastCall.resets = 1 /\ ~lastCall.resetOk) =>
          /\ lastCall.dbResets = 0
          /\ lastCall.moved = "none"
          /\ lastCall.invocations = 1
          /\ collection = "collection"
          /\ lastCall.ret = FailureValue(lastCall.op, lastCall.firstError)
    /\ lastCall.dbResets > 0 => lastCall.op = "force_reset"

C2_Witness ==
    /\ Wrapped
    /\ lastCall.resets = 1
    /\ ~lastCall.resetOk
    /\ index = "does not exist"

\* C3: one call of a public operation attempts the collection reset at most
\* once and invokes the index operation at most twice; a second invocation
\* happens only after the one successful reset, and a failed retry is followed
\* by no further reset or retry.
C3_RecoveryAtMostOnce ==
    Wrapped =>
        /\ lastCall.resets <= 1
        /\ lastCall.invocations <= 2
        /\ lastCall.invocations = 2 => (lastCall.resets = 1 /\ lastCall.resetOk)
        /\ lastCall.dbResets = 0

\* The retry failed, again with a corruption signature.
C3_Witness ==
    /\ Wrapped
    /\ lastCall.invocations = 2
    /\ ~lastCall.retryOk
    /\ IsCorruption(index)

\* C4: no public operation raises to its caller; when the fault was not fixed
\* the operation returns its failure value (False, None or the 'error' map),
\* and is_healthy and force_reset return False on a store that is not healthy.
C4_NoPublicOperationRaises ==
    /\ lastCall.ret.kind # "raised"
    /\ (Wrapped /\ lastCall.firstError # "" /\ ~lastCall.retryOk) =>
          lastCall.ret = FailureValue(lastCall.op, lastCall.firstError)
    /\ (lastCall.op \in {"is_healthy", "force_reset"}
        /\ (collection = "None" \/ index # "ok")) =>
          lastCall.ret = Ret("False", NoIds, 0, "")

\* A stats call whose retry failed returned the 'error' map.
C4_Witness ==
    /\ lastCall.op = "stats"
    /\ lastCall.invocations = 2
    /\ ~lastCall.retryOk
    /\ lastCall.ret.kind = "error_map"

-----------------------------------------------------------------------------
(* Properties of search_similar_content, checked under SpecRank *)

Applied == evidence # Pending

Items == evidence.items

\* The row of hit h, and its similarity before and after the boost, written
\* from the contract: 1 - d, times the boost factor and clamped to 1.0 for a
\* FLOWCHART, unchanged for any other type.
RowOf(h) == IF h.element_id = NoElementId THEN NoRow ELSE page_elements[h.element_id]

RawSimilarity(h) == Scale - h.distance

ContractBoost(h) ==
    IF RowOf(h).element_type = "FLOWCHART"
    THEN Min((RawSimilarity(h) * BoostNum) \div BoostDen, Scale)
    ELSE RawSimilarity(h)

\* No hit of the query is a match: there is none, or each lacks an element
\* row or scores at or below the floor.
NoMatchInScope ==
    \/ ~query.embedOk
    \/ query.store = "None"
    \/ query.dbFault
    \/ \A i \in 1..Len(query.hits) :
          \/ RowOf(query.hits[i]) = NoRow
          \/ ContractBoost(query.hits[i]) <= RelevanceFloor

\* C5: search_similar_content always returns a list (never None, never an
\* exception), and the list is empty when the store returned None or no
\* hits, when the query embedding could not be computed, when a step raised,
\* and when no hit is a match.
C5_EmptyListOnNoMatch ==
    Applied =>
        /\ evidence.kind = "list"
        /\ NoMatchInScope => Items = <<>>

\* The relational lookup raised and the call returned the empty list.
C5_Witness ==
    /\ Applied
    /\ query.dbFault
    /\ evidence = Result("list", <<>>)

\* C6: no two items of a returned list have the same page_number.
C6_OnePerPage ==
    Applied =>
        \A i \in 1..Len(Items), j \in 1..Len(Items) :
            i # j => Items[i].page_number # Items[j].page_number

\* Two hits of one page both passed the floor and a list was returned.
C6_Witness ==
    /\ Applied
    /\ Len(Items) >= 1
    /\ \E i \in 1..Len(trace.all), j \in 1..Len(trace.all) :
          i # j /\ trace.all[i].page_number = trace.all[j].page_number

\* C7 as stated: every returned (rounded) similarity_score is strictly above
\* 0.5 and at most 1.0.
C7_Original ==
    Applied =>
        \A i \in 1..Len(Items) :
            /\ RelevanceFloor < Items[i].similarity_score
            /\ Items[i].similarity_score <= Scale

\* C7 amended: every returned (rounded) similarity_score is at least 0.5 and
\* at most 1.0; it equals 0.5 when the boosted score lies above 0.5 by less
\* than 0.0005.
C7_RoundedScoreRange ==
    Applied =>
        \A i \in 1..Len(Items) :
            /\ RelevanceFloor <= Items[i].similarity_score
            /\ Items[i].similarity_score <= Scale
            /\ Items[i].similarity_score = RelevanceFloor =>
                  /\ Items[i].boosted > RelevanceFloor
                  /\ 2 * (Items[i].boosted - RelevanceFloor) <= Milli

\* A returned item whose rounded score is exactly 0.5.
C7_Witness ==
    /\ Applied
    /\ \E i \in 1..Len(Items) : Items[i].similarity_score = RelevanceFloor

\* C8: for every hit that becomes a candidate, and so for every returned
\* item, the boosted similarity is min((1 - d) * boost, 1.0) when the element
\* is a FLOWCHART and exactly 1 - d otherwise; the score handed out is that
\* value rounded to 3 decimals.
C8_BoostOnlyFlowchart ==
    Applied =>
        /\ \A i \in 1..Len(trace.all) :
              LET c == trace.all[i]
                  h == query.hits[c.pos]
              IN /\ c.element_id = h.element_id
                 /\ c.element_type = RowOf(h).element_type
                 /\ c.boosted = ContractBoost(h)
                 /\ c.similarity_score = Round3(ContractBoost(h))
        /\ \A i \in 1..Len(Items) :
              \E j \in 1..Len(trace.all) : Items[i] = trace.all[j]

\* A FLOWCHART whose boost was clamped was returned, next to an unboosted
\* ALL_TEXT candidate.
C8_Witness ==
    /\ Applied
    /\ \E i \in 1..Len(Items) :
          /\ Items[i].element_type = "FLOWCHART"
          /\ Items[i].boosted = Scale
          /\ (RawSimilarity(query.hits[Items[i].pos]) * BoostNum) \div BoostDen > Scale
    /\ \E j \in 1..Len(trace.all) :
          /\ trace.all[j].element_type = "ALL_TEXT"
          /\ trace.all[j].boosted = RawSimilarity(query.hits[trace.all[j].pos])

\* The lookup ran over the hits (no early return, no exception).
Scored == Applied /\ query.embedOk /\ query.store = "hits" /\ ~query.dbFault

\* C9: the floor is a hard cutoff on the boosted, unrounded similarity: a hit
\* is a candidate exactly when it has an element row and its boosted
\* similarity is strictly above 0.5, and every returned item is a candidate.
C9_HardFloor ==
    Scored =>
        /\ \A i \in 1..Len(trace.all) : trace.all[i].boosted > RelevanceFloor
        /\ \A p \in 1..Len(query.hits) :
              (\E i \in 1..Len(trace.all) : trace.all[i].pos = p)
              <=> (/\ RowOf(query.hits[p]) # NoRow
                   /\ ContractBoost(query.hits[p]) > RelevanceFloor)
        /\ \A i \in 1..Len(Items) :
              /\ Items[i].boosted > RelevanceFloor
              /\ \E j \in 1..Len(trace.all) : Items[i] = trace.all[j]

\* A hit whose boosted similarity is exactly 0.5 was dropped while another
\* hit was returned.
C9_Witness ==
    /\ Scored
    /\ Len(Items) >= 1
    /\ \E p \in 1..Len(query.hits) :
          /\ RowOf(query.hits[p]) # NoRow
          /\ ContractBoost(query.hits[p]) = RelevanceFloor
          /\ \A i \in 1..Len(trace.all) : trace.all[i].pos # p

\* C10 as stated: the element kept for a page has the highest boosted
\* similarity among the candidates of that page, and among candidates of
\* equal boosted similarity it is the earliest in retrieval order.
C10_Original ==
    Scored =>
        \A i \in 1..Len(trace.perPage) :
            \A j \in 1..Len(trace.all) :
                LET kept == trace.perPage[i]
                    c == trace.all[j]
                IN c.page_number = kept.page_number =>
                      \/ c.boosted < kept.boosted
                      \/ c.boosted = kept.boosted /\ kept.pos <= c.pos

RankingScenario ==
    /\ Applied
    /\ query = RankInput(TRUE, "hits", FALSE, 5,
                 Hits(<<3, 1, 2>>, <<Scale \div 10, 4 * (Scale \div 10),
                                     45 * (Scale \div 100)>>))

\* C12 as stated: in the ranking scenario the returned list has two items,
\* one per page: page 2's text element with score 0.9 first, then page 1's
\* FLOWCHART element with its boosted score 0.605.
C12_Original ==
    RankingScenario =>
        /\ Len(Items) = 2
        /\ Items[1].page_number = 2
        /\ Items[1].element_id = 3
        /\ Items[1].similarity_score = 9 * (Scale \div 10)
        /\ Items[2].page_number = 1
        /\ Items[2].element_type = "FLOWCHART"
        /\ Items[2].similarity_score = 605 * Milli

-----------------------------------------------------------------------------
(* Properties of the vector store's writes, checked under Spec *)

Deletes == {"delete_element", "delete_document"}

\* The records the filter of delete call c matches among recs.
Filtered(c, recs) ==
    IF c.op = "delete_element" THEN Matching(recs, "element_id", c.arg.e)
    ELSE Matching(recs, "document_id", c.arg.d)

\* C13: a delete by metadata on a working store returns True and removes
\* exactly the records its filter matches, so none matches afterwards; this
\* holds as well when no record matched (a repeated delete), which leaves
\* the records as they were.  Whenever a delete returned True, recovered or
\* not, no record matches its filter.
C13_DeleteIdempotent ==
    /\ [](lastCall.op \in Deletes /\ lastCall.ret.kind = "True"
            => Filtered(lastCall, records) = {})
    /\ [][(lastCall'.op \in Deletes /\ collection # "None" /\ index = "ok") =>
            /\ lastCall'.ret.kind = "True"
            /\ records' = records \ Filtered(lastCall', records)
            /\ lastCall'.removed = Cardinality(Filtered(lastCall', records))
            /\ Filtered(lastCall', records) = {} => records' = records]_vars

\* A delete matched no record of its document, after records had been added,
\* and returned True.
C13_Witness ==
    /\ lastCall.op = "delete_document"
    /\ lastCall.firstError = ""
    /\ lastCall.removed = 0
    /\ lastCall.ret.kind = "True"
    /\ nextId > 0

\* C14: every add_element_embedding call that returns True without a
\* recovery reset adds exactly one record, under an id no stored record
\* has, carrying the element_id and document_id it was given, and leaves all
\* stored records as they were, whether or not a record of that element is
\* already stored; ids are never shared by two records.
C14_AddIsInsert ==
    /\ [](\A r1 \in records, r2 \in records : r1.id = r2.id => r1 = r2)
    /\ [][(/\ lastCall'.op = "add"
           /\ lastCall'.ret.kind = "True"
           /\ lastCall'.resets = 0) =>
            /\ Cardinality(records') = Cardinality(records) + 1
            /\ records \subseteq records'
            /\ \E r \in records' \ records :
                  /\ r.element_id = lastCall'.arg.e
                  /\ r.document_id = lastCall'.arg.d
                  /\ \A old \in records : old.id # r.id]_vars

\* The element just added without a reset is stored twice, under two ids.
C14_Witness ==
    /\ lastCall.op = "add"
    /\ lastCall.ret.kind = "True"
    /\ lastCall.resets = 0
    /\ \E r1 \in records, r2 \in records :
          /\ r1.id # r2.id
          /\ r1.element_id = lastCall.arg.e /\ r2.element_id = lastCall.arg.e
          /\ r1.document_id = lastCall.arg.d /\ r2.document_id = lastCall.arg.d

\* C15: force_reset runs the store-level reset once and returns the health
\* of what the reset left: it returns True exactly when is_healthy() holds
\* right after it, and then the collection holds no record.
C15_ForceResetReportsHealth ==
    lastCall.op = "force_reset" =>
        /\ lastCall.dbResets = 1
        /\ lastCall.ret.kind \in {"True", "False"}
        /\ lastCall.ret.kind = "True" <=> IsHealthy(collection, index)
        /\ lastCall.ret.kind = "True" => records = {}

\* force_reset returned True on a store to which records had been added.
C15_Witness ==
    /\ lastCall.op = "force_reset"
    /\ lastCall.ret.kind = "True"
    /\ nextId > 0
    /\ records = {}

-----------------------------------------------------------------------------
(* The calls to the embedding and generative service (ai_processor.py) *)

\* def _retry_with_backoff(self, func, max_retries=3, base_delay=1)
max_retries == 3
base_delay == 1

\* "503" in str(e) or "UNAVAILABLE" in str(e) or "500" in str(e) or
\* "INTERNAL" in str(e); a message stands for the signature it carries.
TransientSignatures == {"503", "UNAVAILABLE", "500", "INTERNAL"}

\* What one invocation of the service does: it answers ("ok"), answers
\* without candidates ("empty"), or raises with the message given.
RemoteErrors == TransientSignatures \cup {"429"}
RemoteOutcomes == {"ok", "empty"} \cup RemoteErrors

IsTransient(msg) == msg \in TransientSignatures

\* One pass of the loop body of _retry_with_backoff at loop index attempt,
\* when func() does what outcome says.  variant "code" is the method as
\* written; "retryall" retries after every error; "raise" lets a
\* non-transient error reach the caller.
RetryIterationCore(attempt, outcome, variant) ==
    IF outcome \notin RemoteErrors
    THEN [raised |-> FALSE, done |-> TRUE, value |-> outcome, delay |-> 0]
    ELSE IF IsTransient(outcome) \/ variant = "retryall"
    THEN IF attempt < max_retries - 1
         THEN \* time.sleep(base_delay * 2 ** attempt + jitter); continue
              [raised |-> FALSE, done |-> FALSE, value |-> "",
               delay |-> base_delay * (2 ^ attempt)]
         ELSE [raised |-> FALSE, done |-> TRUE, value |-> "None", delay |-> 0]
    ELSE [raised |-> variant = "raise", done |-> TRUE, value |-> "None",
          delay |-> 0]

RetryIterationRetryAll(attempt, outcome) ==
    RetryIterationCore(attempt, outcome, "retryall")

RetryIteration(attempt, outcome) == RetryIterationCore(attempt, outcome, "code")

\* The callers that go through _retry_with_backoff, and what each makes of
\* the value it returns: process_png_page returns [] for None and the
\* extracted elements otherwise; generate_embeddings returns None for None
\* and for a response without embeddings, the vector otherwise.
RetryCallers == {"process_png_page", "generate_embeddings"}

CallerResult(caller, value) ==
    IF caller = "process_png_page"
    THEN (IF value = "None" THEN "[]"
          ELSE IF value = "empty" THEN "no elements" ELSE "elements")
    ELSE (IF value = "ok" THEN "values" ELSE "None")

\* The inline call of answer_question: one invocation of generate_content
\* inside its own try/except.
GenerateAnswer(outcome) ==
    IF outcome = "ok" THEN [kind |-> "text", error |-> ""]
    ELSE IF outcome = "empty" THEN [kind |-> "no valid response", error |-> ""]
    ELSE [kind |-> "error", error |-> outcome]

RemoteCallers == RetryCallers \cup {"answer_question"}

RemoteCall(caller, script) ==
    [caller |-> caller, status |-> "running", error |-> "", invocations |-> 0,
     attempt |-> 0, script |-> script, delays |-> <<>>, result |-> ""]

\* One pass of the for loop of _retry_with_backoff; the pass that returns
\* also runs the rest of the caller.
RetryStep ==
    /\ remote.status = "running"
    /\ remote.caller \in RetryCallers
    /\ IF remote.attempt >= max_retries
       THEN \* the loop is exhausted: return None
            remote' = [remote EXCEPT !.status = "returned",
                          !.result = CallerResult(remote.caller, "None")]
       ELSE LET it == RetryIteration(remote.attempt,
                                     remote.script[remote.attempt + 1])
            IN remote' =
                 IF it.raised
                 THEN [remote EXCEPT !.status = "raised",
                          !.invocations = @ + 1,
                          !.error = remote.script[remote.attempt + 1]]
                 ELSE IF it.done
                 THEN [remote EXCEPT !.status = "returned",
                          !.invocations = @ + 1,
                          !.result = CallerResult(remote.caller, it.value)]
                 ELSE [remote EXCEPT !.attempt = @ + 1,
                          !.invocations = @ + 1,
                          !.delays = Append(@, it.delay)]
    /\ UNCHANGED <<storeVars, rankVars, answerVars, ingestVars, race>>

\* The generative call of answer_question (lines 250-259).
AnswerGenerate ==
    /\ remote.status = "running"
    /\ remote.caller = "answer_question"
    /\ LET g == GenerateAnswer(remote.script[1])
       IN remote' = [remote EXCEPT !.status = "returned", !.invocations = 1,
                        !.result = g.kind, !.error = g.error]
    /\ UNCHANGED <<storeVars, rankVars, answerVars, ingestVars, race>>

InitRemote ==
    /\ client = "client"
    /\ collection = "collection"
    /\ index = "ok"
    /\ records = {}
    /\ nextId = 0
    /\ lastCall = Ghost("init", NoArg, Ret("none", NoIds, 0, ""), NoCall)
    /\ page_elements = <<>>
    /\ query = NoQuery
    /\ trace = NoTrace
    /\ evidence = Pending
    /\ AnswerUnused
    /\ IngestUnused
    /\ race = NoRace
    /\ \E caller \in RemoteCallers, script \in [1..max_retries -> RemoteOutcomes] :
           remote = RemoteCall(caller, script)

NextRemote == RetryStep \/ AnswerGenerate

SpecRemote == InitRemote /\ [][NextRemote]_vars

\* The loop is scheduled until it returns: nothing else runs in the call.
SpecRemoteFair == SpecRemote /\ WF_vars(NextRemote)

-----------------------------------------------------------------------------
(* Properties of the remote calls, checked under SpecRemote *)

Returned == remote.status = "returned"

ViaRetry == remote.caller \in RetryCallers

\* The invocations made so far that were followed by another one.
Retried == 1..(remote.invocations - (IF Returned THEN 1 ELSE 0))

RetryInvariant ==
    ViaRetry =>
        /\ remote.status \in {"running", "returned"}
        /\ remote.invocations <= max_retries
        /\ \A i \in Retried : IsTransient(remote.script[i])
        /\ Len(remote.delays) = Cardinality(Retried)
        /\ \A i \in Retried : remote.delays[i] = base_delay * (2 ^ (i - 1))
        /\ remote.status = "running" =>
              /\ remote.invocations = remote.attempt
              /\ remote.attempt < max_retries
        /\ Returned =>
              LET last == remote.script[remote.invocations]
              IN /\ remote.invocations >= 1
                 /\ last \in RemoteErrors =>
                       remote.result = CallerResult(remote.caller, "None")
                 /\ IsTransient(last) => remote.invocations = max_retries
                 /\ last \notin RemoteErrors =>
                       remote.result = CallerResult(remote.caller, last)

\* C18: _retry_with_backoff never raises and invokes the remote call at most
\* max_retries = 3 times; an invocation is followed by another one only
\* when it raised a transient signature (after a delay of base_delay * 2^i);
\* the call returns None when the third invocation raised a transient
\* signature and when any invocation raised another error, which is then the
\* last one; and every call returns.
C18_RetryTerminates ==
    /\ []RetryInvariant
    /\ <>(remote.status = "returned")

\* Three transient failures in a row: three invocations, two delays, None.
C18_Witness ==
    /\ ViaRetry
    /\ Returned
    /\ remote.invocations = max_retries
    /\ \A i \in 1..max_retries : IsTransient(remote.script[i])
    /\ remote.delays = <<base_delay, 2 * base_delay>>
    /\ remote.result = CallerResult(remote.caller, "None")

\* What a caller hands back for a call that failed.
NullResults == {"None", "[]"}

\* C19 as stated: each of the three remote calls (page extraction,
\* embedding generation, answer generation) is invoked again after a
\* transient fault, up to the ceiling of max_retries invocations, and a call
\* whose last invocation failed hands a null result to its caller.
C19_Original ==
    Returned =>
        LET last == remote.script[remote.invocations]
        IN /\ \A i \in 1..(remote.invocations - 1) : IsTransient(remote.script[i])
           /\ IsTransient(last) => remote.invocations = max_retries
           /\ last \in RemoteErrors => remote.result \in NullResults

-----------------------------------------------------------------------------
(* Answering: DocumentProcessor.answer_question and AIProcessor.answer_question *)

\* Evidence items handed to AIProcessor.answer_question in one call.
MaxContext == 3

\* Store hits of one DocumentProcessor.answer_question call.
MaxAnswerHits == 2

NoEvidenceAnswer == "Maaf, tidak ada informasi relevan yang ditemukan."
NoContextAnswer ==
    "Maaf, tidak ada informasi yang relevan untuk menjawab pertanyaan Anda."

\* An evidence item, reduced to the keys answer_question reads.  The text of
\* an element is named by a number.
ContextElement(p, t, x) == [plain_text |-> x, element_type |-> t, page_number |-> p]

ContextElements ==
    {ContextElement(p, t, x) : p \in 1..2, t \in {"ALL_TEXT", "FLOWCHART"},
                               x \in 1..2}

\* The list search_similar_content returned, as answer_question reads it.
AsContext(items) ==
    [i \in 1..Len(items) |->
        ContextElement(items[i].page_number, items[i].element_type,
                       items[i].element_id)]

\* f"[{element_type}] {plain_text}"; pos, the place of the item in the
\* evidence list, is a ghost field.
ElementText(e, pos) ==
    [plain_text |-> e.plain_text, element_type |-> e.element_type, pos |-> pos]

\* context_by_page, a dict in insertion order: one entry per page_number in
\* order of first occurrence, each with the list of its element texts.
\* variant "code" appends as the loop does; "prepend" puts each text in
\* front of the list of its page.
RECURSIVE ContextByPageFrom(_, _, _, _)
ContextByPageFrom(i, elems, ctx, variant) ==
    IF i > Len(elems) THEN ctx
    ELSE LET e == elems[i]
             t == ElementText(e, i)
             at == {j \in 1..Len(ctx) : ctx[j].page_number = e.page_number}
         IN ContextByPageFrom(i + 1, elems,
                IF at = {}
                THEN Append(ctx, [page_number |-> e.page_number,
                                  contents |-> <<t>>])
                ELSE [j \in 1..Len(ctx) |->
                        IF j \in at
                        THEN [ctx[j] EXCEPT !.contents =
                                 IF variant = "prepend" THEN <<t>> \o @
                                 ELSE Append(@, t)]
                        ELSE ctx[j]],
                variant)

ContextByPagePrepend(elems) == ContextByPageFrom(1, elems, <<>>, "prepend")

\* context_parts: one block per entry of context_by_page, in its order.
ContextByPage(elems) == ContextByPageFrom(1, elems, <<>>, "code")

Answer(kind, text, blocks, calls, error) ==
    [kind |-> kind, error |-> error, text |-> text, blocks |-> blocks,
     modelCalls |-> calls]

\* AIProcessor.answer_question, generate_content doing what outcome says.
\* variant "code" is the method as written; "nocheck" lacks the test for an
\* empty elements_context.
AIAnswerCore(elems, outcome, variant) ==
    IF elems = <<>> /\ variant # "nocheck"
    THEN Answer("no context", NoContextAnswer, <<>>, 0, "")
    ELSE LET g == GenerateAnswer(outcome)
         IN Answer(g.kind, "", ContextByPage(elems), 1, g.error)

AIAnswerNoCheck(elems, outcome) == AIAnswerCore(elems, outcome, "nocheck")

AIAnswer(elems, outcome) == AIAnswerCore(elems, outcome, "code")

\* DocumentProcessor.answer_question: the search, then the answer.
DocumentAnswer(q, table, outcome) ==
    LET found == SearchSimilarContentResult(q, table)
        similar_elements == found.ret.items
    IN IF similar_elements = <<>>
       THEN [answer |-> Answer("no evidence", NoEvidenceAnswer, <<>>, 0, ""), found |-> found,
             similar_elements |-> <<>>]
       ELSE [answer |-> AIAnswer(AsContext(similar_elements), outcome), found |-> found,
             similar_elements |-> similar_elements]

PendingAnswer(entry) == [entry |-> entry, kind |-> "pending"]

\* DocumentProcessor.answer_question(document_id, question, top_k)
AnswerQuestion ==
    /\ answer = PendingAnswer("document_processor")
    /\ \E outcome \in RemoteOutcomes :
          LET out == DocumentAnswer(query, page_elements, outcome)
          IN /\ evidence' = out.found.ret
             /\ trace' = [all |-> out.found.all, perPage |-> out.found.perPage]
             /\ elements_context' = AsContext(out.similar_elements)
             /\ answer' = [entry |-> "document_processor",
                           similar_elements |-> out.similar_elements]
                          @@ out.answer
    /\ UNCHANGED <<page_elements, query>>
    /\ UNCHANGED <<storeVars, remoteVars, ingestVars, race>>

\* AIProcessor.answer_question(question, elements_context)
AIAnswerQuestion ==
    /\ answer = PendingAnswer("ai_processor")
    /\ \E outcome \in RemoteOutcomes :
          answer' = [entry |-> "ai_processor", similar_elements |-> <<>>]
                    @@ AIAnswer(elements_context, outcome)
    /\ UNCHANGED elements_context
    /\ UNCHANGED <<storeVars, rankVars, remoteVars, ingestVars, race>>

\* The distances drawn for the hits of an answer_question call: 0.1, 0.45
\* and 0.6.
AnswerDistSet == {Scale \div 10, 45 * (Scale \div 100), 6 * (Scale \div 10)}

IsAnswerInput(q) ==
    \E k \in TopKs :
        \/ q = RankInput(FALSE, "None", FALSE, k, <<>>)
        \/ q = RankInput(TRUE, "None", FALSE, k, <<>>)
        \/ \E n \in 0..Min(k, MaxAnswerHits) :
             \E es \in [1..n -> RankElementIds], ds \in [1..n -> AnswerDistSet] :
                 /\ Nondecreasing(ds)
                 /\ q = RankInput(TRUE, "hits", FALSE, k, Hits(es, ds))

InitAnswer ==
    /\ client = "client"
    /\ collection = "collection"
    /\ index = "ok"
    /\ records = {}
    /\ nextId = 0
    /\ lastCall = Ghost("init", NoArg, Ret("none", NoIds, 0, ""), NoCall)
    /\ page_elements \in RankTables
    /\ trace = NoTrace
    /\ evidence = Pending
    /\ RemoteUnused
    /\ IngestUnused
    /\ race = NoRace
    /\ \/ /\ IsAnswerInput(query)
          /\ elements_context = <<>>
          /\ answer = PendingAnswer("document_processor")
       \/ /\ query = NoQuery
          /\ \E n \in 0..MaxContext : elements_context \in [1..n -> ContextElements]
          /\ answer = PendingAnswer("ai_processor")

NextAnswer == AnswerQuestion \/ AIAnswerQuestion

SpecAnswer == InitAnswer /\ [][NextAnswer]_vars

-----------------------------------------------------------------------------
(* Properties of answering, checked under SpecAnswer *)

Answered == answer.kind \notin {"none", "pending"}

\* C16: when the evidence list is empty the answer is the fixed fallback
\* string of the method called and generate_content is not called; it is
\* called, once, only when there is at least one evidence item.
C16_NoEvidenceNoModelCall ==
    Answered =>
        /\ answer.modelCalls \in {0, 1}
        /\ answer.modelCalls = 1 => Len(elements_context) >= 1
        /\ elements_context = <<>> =>
              /\ answer.modelCalls = 0
              /\ answer.blocks = <<>>
              /\ answer.entry = "document_processor" =>
                    /\ answer.text = NoEvidenceAnswer
                    /\ answer.similar_elements = <<>>
              /\ answer.entry = "ai_processor" => answer.text = NoContextAnswer
        /\ answer.entry = "document_processor" =>
              elements_context = AsContext(evidence.items)

\* The store returned hits, none became evidence, and the fallback string
\* was returned without a call to the model.
C16_Witness ==
    /\ Answered
    /\ answer.entry = "document_processor"
    /\ Len(query.hits) >= 1
    /\ evidence.items = <<>>
    /\ answer.text = NoEvidenceAnswer
    /\ answer.modelCalls = 0

ContextPages == {elements_context[i].page_number : i \in 1..Len(elements_context)}

\* C17: the context has one block per distinct page_number of the evidence,
\* every evidence item is in exactly one block, the block of its page, and
\* inside a block the items are in the order of the evidence list.
C17_ContextGroupedByPage ==
    (Answered /\ answer.modelCalls = 1) =>
        LET blocks == answer.blocks
        IN /\ {blocks[b].page_number : b \in 1..Len(blocks)} = ContextPages
           /\ Len(blocks) = Cardinality(ContextPages)
           /\ \A i \in 1..Len(elements_context) :
                 Cardinality({<<b, c>> \in (1..Len(blocks)) \X (1..Len(elements_context)) :
                     /\ c <= Len(blocks[b].contents)
                     /\ blocks[b].contents[c].pos = i}) = 1
           /\ \A b \in 1..Len(blocks) :
                 LET cs == blocks[b].contents
                 IN /\ \A c \in 1..Len(cs) :
                          /\ cs[c].pos \in 1..Len(elements_context)
                          /\ cs[c] = ElementText(elements_context[cs[c].pos],
                                                 cs[c].pos)
                          /\ elements_context[cs[c].pos].page_number
                                = blocks[b].page_number
                    /\ \A c \in 1..(Len(cs) - 1) : cs[c].pos < cs[c + 1].pos

\* Three evidence items of pages 2, 1, 2: two blocks, the first with two
\* items.
C17_Witness ==
    /\ Answered
    /\ answer.modelCalls = 1
    /\ Len(elements_context) = 3
    /\ elements_context[1].page_number = elements_context[3].page_number
    /\ elements_context[1].page_number # elements_context[2].page_number
    /\ Len(answer.blocks) = 2
    /\ Len(answer.blocks[1].contents) = 2

-----------------------------------------------------------------------------
(* Ingestion: DocumentProcessor.process_pdf_document *)

\* Pages of one document.
MaxPages == 2

\* _validate_element_type: element_type in ['ALL_TEXT', 'FLOWCHART']
ValidElementTypes == {"ALL_TEXT", "FLOWCHART"}

\* The validation with 'TEXT' taken for a supported type.
ValidateElementTypeWithText(t) == t \in ValidElementTypes \cup {"TEXT"}

ValidateElementType(t) == t \in ValidElementTypes

\* The texts of an element: a text with content, a text of white space
\* only, and the empty text.
PlainTexts == {"text", " ", ""}

\* str.strip()
Strip(t) == IF t = " " THEN "" ELSE t

\* AIProcessor.generate_embeddings(text): None for a text that is empty or
\* white space only, else what the remote call gave (embedOk), None when it
\* failed.  variant "code" is the method as written; "nostrip" tests only
\* whether the text is empty.
GenerateEmbeddingsCore(text, embedOk, variant) ==
    IF text = "" \/ (variant # "nostrip" /\ Strip(text) = "")
    THEN "None"
    ELSE IF embedOk THEN "vector" ELSE "None"

GenerateEmbeddingsNoStrip(text, embedOk) ==
    GenerateEmbeddingsCore(text, embedOk, "nostrip")

GenerateEmbeddings(text, embedOk) ==
    GenerateEmbeddingsCore(text, embedOk, "code")

\* An extracted element as _process_png_page reads it.
ExtractedElement(type, text) == [plain_text |-> text, element_type |-> type]

\* The element lists AIProcessor.process_png_page builds: at most one 'TEXT'
\* element, then at most one 'FLOWCHART' element, each with a text that is
\* not blank.
ExtractorLists ==
    {<<>>, <<ExtractedElement("TEXT", "text")>>,
     <<ExtractedElement("FLOWCHART", "text")>>,
     <<ExtractedElement("TEXT", "text"), ExtractedElement("FLOWCHART", "text")>>}

\* What AIProcessor.process_png_page can return for a page: a list of
\* elements, and [] when the call failed.
Extractions ==
    {[elements |-> <<>>, failed |-> TRUE]}
    \cup {[elements |-> es, failed |-> FALSE] : es \in ExtractorLists}

\* The element lists the loop of _process_png_page is written for: those of
\* the extractor, and lists whose FLOWCHART element has a blank text, which
\* lines 147-149 test for.
ElementLists ==
    ExtractorLists
    \cup {<<ExtractedElement("FLOWCHART", t)>> : t \in PlainTexts}
    \cup {<<ExtractedElement("TEXT", "text"), ExtractedElement("FLOWCHART", t)>> :
             t \in PlainTexts}

AnyExtractions ==
    Extractions \cup {[elements |-> es, failed |-> FALSE] : es \in ElementLists}

\* Where the relational session raises while a page is processed.
PageFaults == {"none", "page flush", "element flush", "commit"}

\* The id the relational store gives the next row of a table whose
\* AUTOINCREMENT sequence stands at seq.  The sequence is part of the
\* transaction: a rollback takes it back, a committed delete does not.
NextRowId(seq) == seq + 1

StoreOf(cl, coll, idx, recs, nid, last) ==
    [client |-> cl, collection |-> coll, index |-> idx, records |-> recs,
     nextId |-> nid, lastCall |-> last]

\* The store after add_element_embedding did what _safe_collection_operation
\* reports in r.
StoreAfter(s, arg, r) ==
    StoreOf(r.client, r.collection, r.index, r.records, s.nextId + r.added,
            Ghost("add", arg, PublicReturn("add", r), r))

AddArg(id, doc, text) == [d |-> doc, e |-> id, t |-> text, sel |-> {}, k |-> 0]

\* vector_db.add_element_embedding(element_id=id, plain_text=text, ...,
\* document_id=doc) on store s; its result is not looked at.
AddEmbedding(s, id, doc, text, ch) ==
    StoreAfter(s, AddArg(id, doc, text),
               SafeCollectionOperation("add", AddArg(id, doc, text), s.client,
                   s.collection, s.index, s.records, s.nextId + 1, ch))

\* Lines 147-149: the element is embedded when its text is not empty and
\* generate_embeddings returned a vector.
Embeds(text, embedOk) ==
    text # "" /\ GenerateEmbeddings(text, embedOk) # "None"

\* The PageElement row of extracted element e.
ElementRow(id, page_id, e) ==
    [id |-> id, plain_text |-> e.plain_text, element_type |-> e.element_type,
     page_id |-> page_id]

\* The loop over extracted_elements of _process_png_page from element i on.
\* st = [elements, element_seq, store, raised]: the PageElement rows of the
\* session and their id sequence, the vector store, and whether a flush has
\* raised.
RECURSIVE ProcessElementsFrom(_, _, _, _, _, _, _, _)
ProcessElementsFrom(i, elems, page_id, doc, st, fault, embedOk, ch) ==
    IF i > Len(elems) \/ st.raised THEN st
    ELSE IF ~ValidateElementType(elems[i].element_type)
    THEN \* invalid element type: skipping
         ProcessElementsFrom(i + 1, elems, page_id, doc, st, fault, embedOk, ch)
    ELSE IF fault = "element flush"
    THEN [st EXCEPT !.raised = TRUE]
    ELSE ProcessElementsFrom(i + 1, elems, page_id, doc,
             [st EXCEPT
                 !.elements = @ \cup {ElementRow(NextRowId(st.element_seq),
                                                 page_id, elems[i])},
                 !.element_seq = NextRowId(@),
                 !.store = IF Embeds(elems[i].plain_text, embedOk)
                           THEN AddEmbedding(@, NextRowId(st.element_seq), doc,
                                             elems[i].plain_text, ch)
                           ELSE @],
             fault, embedOk, ch)

\* The log entry of a page: a ghost of what happened while it was processed.
LogEntry(k, x, fault, embedOk) ==
    [elements |-> x.elements, embedOk |-> embedOk, page_number |-> k,
     failed |-> x.failed, fault |-> fault]

\* The end of _process_png_page: st is what the loop over the elements
\* left; the commit, or the rollback when a flush or the commit raised.
\* variant "code" is the method as written; with "autocommit" the rows
\* flushed before a fault stay stored.
PageOutcome(rel, page, st, fault, variant) ==
    IF (st.raised \/ fault = "commit") /\ variant # "autocommit"
    THEN \* session.rollback(); raise e
         [relational |-> rel, raised |-> TRUE, store |-> st.store]
    ELSE [relational |-> [rel EXCEPT !.pages = @ \cup {page},
                                     !.page_seq = page.id,
                                     !.elements = st.elements,
                                     !.element_seq = st.element_seq],
          raised |-> st.raised \/ fault = "commit", store |-> st.store]

\* An element of the page is written: the flush of an element can raise.
HasValidElement(x) ==
    \E i \in 1..Len(x.elements) : ValidateElementType(x.elements[i].element_type)

\* _process_png_page for page k of document doc.  x is what the extraction
\* returned, fault where the session raises, embedOk whether the remote
\* embedding call gave a vector, ch what a collection reset would do.
\* With variant "compensate" a page that raises leaves the vector store as
\* it found it.
ProcessPngPageCore(doc, k, rel, store, x, fault, embedOk, ch, variant) ==
    IF fault = "page flush"
    THEN [relational |-> rel, raised |-> TRUE, store |-> store]
    ELSE IF /\ variant = "compensate"
            /\ fault = "commit" \/ (fault = "element flush" /\ HasValidElement(x))
    THEN [relational |-> rel, raised |-> TRUE, store |-> store]
    ELSE PageOutcome(rel,
             [document_id |-> doc, id |-> NextRowId(rel.page_seq),
              page_number |-> k],
             ProcessElementsFrom(1, x.elements, NextRowId(rel.page_seq), doc,
                 [elements |-> rel.elements, element_seq |-> rel.element_seq,
                  raised |-> FALSE, store |-> store],
                 fault, embedOk, ch),
             fault, variant)

ProcessPngPageAutocommit(doc, k, rel, store, x, fault, embedOk, ch) ==
    ProcessPngPageCore(doc, k, rel, store, x, fault, embedOk, ch, "autocommit")

ProcessPngPageCompensating(doc, k, rel, store, x, fault, embedOk, ch) ==
    ProcessPngPageCore(doc, k, rel, store, x, fault, embedOk, ch, "compensate")

ProcessPngPage(doc, k, rel, store, x, fault, embedOk, ch) ==
    ProcessPngPageCore(doc, k, rel, store, x, fault, embedOk, ch, "code")

\* The remote embedding call is made for an element of the page.
HasEmbeddableElement(x) ==
    \E i \in 1..Len(x.elements) :
        /\ ValidateElementType(x.elements[i].element_type)
        /\ Strip(x.elements[i].plain_text) # ""

\* process_pdf_document up to the batch, for a document id of docs: the
\* Document row is committed, then the PDF is converted.  Either can raise;
\* a document without pages returns at once.  The id is a fresh uuid: an id
\* whose row was committed once is not drawn again (ghost field issued).
StartDocumentOf(docs) ==
    /\ ingest.status # "running"
    /\ \E doc \in docs \ (relational.documents \cup ingest.issued) :
         \/ /\ ingest' = [NoIngest EXCEPT !.status = "raised",
                             !.document_id = doc, !.error = "document commit",
                             !.issued = ingest.issued]
            /\ UNCHANGED relational
         \/ /\ ingest' = [NoIngest EXCEPT !.status = "raised",
                             !.document_id = doc, !.error = "convert",
                             !.issued = ingest.issued \cup {doc}]
            /\ relational' = [relational EXCEPT !.documents = @ \cup {doc}]
         \/ \E n \in 0..MaxPages :
              /\ ingest' = [NoIngest EXCEPT
                               !.status = IF n = 0 THEN "returned" ELSE "running",
                               !.document_id = doc, !.page_count = n,
                               !.issued = ingest.issued \cup {doc}]
              /\ relational' = [relational EXCEPT !.documents = @ \cup {doc}]
    /\ request' = NoRequest
    /\ UNCHANGED <<storeVars, rankVars, answerVars, remoteVars, race>>

StartDocument == StartDocumentOf(Docs)

\* The state after a page was processed with outcome out.
AfterPage(out, entry) ==
    /\ relational' = out.relational
    /\ client' = out.store.client
    /\ collection' = out.store.collection
    /\ index' = out.store.index
    /\ records' = out.store.records
    /\ nextId' = out.store.nextId
    /\ lastCall' = out.store.lastCall
    /\ ingest' = [ingest EXCEPT
                     !.log = Append(@, entry),
                     !.status = IF out.raised THEN "raised"
                                ELSE IF entry.page_number = ingest.page_count
                                THEN "returned" ELSE "running",
                     !.error = IF out.raised THEN entry.fault ELSE ""]
    /\ request' = NoRequest

\* One pass of the loop of _process_png_pages_batch: the next page, whose
\* extraction is drawn from extractions.  A fault raised by the page leaves
\* the batch and process_pdf_document, whose rollbacks find nothing left to
\* undo.  detail: the ghost log keeps what was extracted, or only the page
\* number and the fault.
ProcessPageOf(extractions, detail) ==
    /\ ingest.status = "running"
    /\ \E x \in extractions, fault \in PageFaults, embedOk \in BOOLEAN,
          ch \in ResetChoices(collection, index) :
         /\ fault = "element flush" => HasValidElement(x)
         /\ ~embedOk => HasEmbeddableElement(x)
         /\ AfterPage(ProcessPngPage(ingest.document_id, Len(ingest.log) + 1,
                           relational,
                           StoreOf(client, collection, index, records, nextId,
                                   lastCall),
                           x, fault, embedOk, ch),
                       IF detail
                       THEN LogEntry(Len(ingest.log) + 1, x, fault, embedOk)
                       ELSE [page_number |-> Len(ingest.log) + 1,
                             fault |-> fault])
    /\ UNCHANGED <<rankVars, answerVars, remoteVars, race>>

ProcessPage == ProcessPageOf(Extractions, TRUE)

\* What the index answers when ingestion starts: it works, it raises a
\* corruption signature, or it raises another error.
IngestIndexStates == {"ok", "invalid", "database is locked"}

InitIngest ==
    /\ client = "client"
    /\ collection = "collection"
    /\ index \in IngestIndexStates
    /\ records = {}
    /\ nextId = 0
    /\ lastCall = Ghost("init", NoArg, Ret("none", NoIds, 0, ""), NoCall)
    /\ page_elements = <<>>
    /\ query = NoQuery
    /\ trace = NoTrace
    /\ evidence = Pending
    /\ AnswerUnused
    /\ RemoteUnused
    /\ IngestUnused
    /\ race = NoRace

NextIngest == StartDocument \/ ProcessPage

SpecIngest == InitIngest /\ [][NextIngest]_vars

-----------------------------------------------------------------------------
(* The loop of _process_png_page over any element list *)

\* The ingestion of one document whose pages carry any of the element
\* lists the loop is written for.
ValidatedDocs == {"D1"}

StartValidatedDocument == StartDocumentOf(ValidatedDocs)

ProcessAnyPage == ProcessPageOf(AnyExtractions, TRUE)

NextValidate == StartValidatedDocument \/ ProcessAnyPage

SpecValidate == InitIngest /\ [][NextValidate]_vars

-----------------------------------------------------------------------------
(* Ingestion of one document while the index can go bad *)

NextFaulty == StartValidatedDocument \/ ProcessPage \/ IndexFault

SpecFaulty == InitIngest /\ [][NextFaulty]_vars

-----------------------------------------------------------------------------
(* Properties of ingestion, checked under SpecIngest *)

Log == ingest.log

\* The committed DocumentPage rows of the document being ingested.
PagesOfDocument ==
    {p \in relational.pages : p.document_id = ingest.document_id}

ElementsOfPage(p) == {e \in relational.elements : e.page_id = p.id}

\* C20 as stated: pages are processed in page order, and a failure on a
\* page, be it a failed extraction or a fault raised while the page is
\* written, ends the ingestion of the document with the fault propagated
\* and leaves no row of that page or of a later page.
C20_Original ==
    /\ \A i \in 1..Len(Log) : Log[i].page_number = i
    /\ \A i \in 1..Len(Log) :
          (Log[i].failed \/ Log[i].fault # "none") =>
              /\ i = Len(Log)
              /\ ingest.status = "raised"
              /\ \A p \in PagesOfDocument : p.page_number < i

\* C20 amended: pages are processed in page order.  A fault raised while a
\* page is processed (the flush of the page row, the flush of an element
\* row, or the commit) ends the ingestion: no later page is processed, no
\* row of that page is committed, and the fault reaches the caller of
\* process_pdf_document.  A failed extraction is not such a fault: the page
\* is committed without elements and ingestion goes on.  Element rows are
\* committed only together with their page row.
C20_FailFastOnRaisedFault ==
    /\ Len(Log) <= ingest.page_count
    /\ \A i \in 1..Len(Log) : Log[i].page_number = i
    /\ \A i \in 1..Len(Log) :
          Log[i].fault # "none" =>
              /\ i = Len(Log)
              /\ ingest.status = "raised"
              /\ ingest.error = Log[i].fault
              /\ \A p \in PagesOfDocument : p.page_number < i
    /\ \A i \in 1..Len(Log) :
          Log[i].fault = "none" =>
              \E p \in PagesOfDocument :
                  /\ p.page_number = i
                  /\ \A q \in PagesOfDocument : q.page_number = i => q = p
                  /\ Log[i].failed => ElementsOfPage(p) = {}
    /\ \A e \in relational.elements : \E p \in relational.pages : p.id = e.page_id
    /\ ingest.status = "returned" =>
          /\ Len(Log) = ingest.page_count
          /\ \A i \in 1..Len(Log) : Log[i].fault = "none"
    /\ ingest.status = "running" =>
          /\ Len(Log) < ingest.page_count
          /\ \A i \in 1..Len(Log) : Log[i].fault = "none"

\* The commit of page 1 of a longer document raised after its FLOWCHART
\* element was written: the call raised, no later page was processed, and no
\* row of the document's pages is stored.
C20_Witness ==
    /\ ingest.status = "raised"
    /\ Len(Log) = 1
    /\ Len(Log) < ingest.page_count
    /\ Log[1].fault = "commit"
    /\ HasValidElement(Log[1])
    /\ PagesOfDocument = {}
    /\ ingest.document_id \in relational.documents

-----------------------------------------------------------------------------
(* Properties of the element loop, checked under SpecValidate *)

\* The committed PageElement rows of page p that extracted unit u became.
UnitRows(p, u) ==
    {e \in ElementsOfPage(p) : e.element_type = u.element_type}

\* The unit is skipped by the validation of its type, or its text is blank.
Unsupported(u) == u.element_type \notin ValidElementTypes

Blank(u) == Strip(u.plain_text) = ""

\* C21: a validation fault on one extracted unit only skips that unit.  On
\* every page that was processed without a raised fault, a unit of an
\* unsupported type leaves no element row and a unit with a blank text
\* leaves no embedding record, while every other unit of the page has its
\* element row with its text; the fault does not end the ingestion (the
\* call raises only for a fault raised on its last processed page, and it
\* returns only after all pages), and when the call has not raised every
\* record in the store belongs to a stored element of a supported type
\* with a text that is not blank.
C21_ValidationFaultSkipsUnit ==
    /\ (ingest.status = "raised" /\ Len(Log) > 0) =>
           Log[Len(Log)].fault # "none"
    /\ ingest.status = "returned" => Len(Log) = ingest.page_count
    /\ \A i \in 1..Len(Log) :
          Log[i].fault = "none" =>
              \E p \in PagesOfDocument :
                  /\ p.page_number = i
                  /\ \A j \in 1..Len(Log[i].elements) :
                        IF Unsupported(Log[i].elements[j])
                        THEN UnitRows(p, Log[i].elements[j]) = {}
                        ELSE \E e \in UnitRows(p, Log[i].elements[j]) :
                                /\ UnitRows(p, Log[i].elements[j]) = {e}
                                /\ e.plain_text = Log[i].elements[j].plain_text
                                /\ Blank(Log[i].elements[j]) =>
                                       Matching(records, "element_id", e.id) = {}
    /\ ingest.status # "raised" =>
          \A r \in records :
              \E e \in relational.elements :
                  /\ e.id = r.element_id
                  /\ e.element_type \in ValidElementTypes
                  /\ Strip(e.plain_text) # ""

\* Page 1 carried a TEXT unit, which is of an unsupported type, and a
\* FLOWCHART unit with a blank text: neither has an embedding record, the
\* FLOWCHART row is stored; page 2 was ingested after it, and its FLOWCHART
\* element has its row and its embedding record.
C21_Witness ==
    /\ Len(Log) = 2
    /\ ingest.status # "raised"
    /\ Len(Log[1].elements) = 2
    /\ Unsupported(Log[1].elements[1])
    /\ Blank(Log[1].elements[2])
    /\ \E p \in PagesOfDocument, e \in relational.elements :
          /\ p.page_number = 1
          /\ ElementsOfPage(p) = {e}
          /\ Matching(records, "element_id", e.id) = {}
    /\ \E p \in PagesOfDocument, e \in relational.elements, r \in records :
          /\ p.page_number = 2
          /\ e \in ElementsOfPage(p)
          /\ r.element_id = e.id
          /\ r.plain_text = "text"

\* C22: every record in the vector store has a plain_text that is not
\* blank: ingestion adds no embedding record for an element whose text is
\* empty or white space only.
C22_IndexedTextNotBlank ==
    \A r \in records : Strip(r.plain_text) # ""

\* A page whose FLOWCHART text is white space only and a page whose
\* FLOWCHART has text were both committed, the remote embedding call being
\* available: the store holds a record, and none for the blank element.
C22_Witness ==
    /\ records # {}
    /\ \E i \in 1..Len(Log) :
          /\ Log[i].fault = "none"
          /\ Log[i].embedOk
          /\ \E j \in 1..Len(Log[i].elements) :
                /\ ~Unsupported(Log[i].elements[j])
                /\ Log[i].elements[j].plain_text = " "
    /\ \E e \in relational.elements :
          /\ e.plain_text = " "
          /\ Matching(records, "element_id", e.id) = {}

-----------------------------------------------------------------------------
(* Stored documents: delete_document and search_similar_content *)

DeleteArg(doc) == [d |-> doc, e |-> 0, t |-> "", sel |-> {}, k |-> 0]

\* The store after delete_document_embeddings did what
\* _safe_collection_operation reports in r.
StoreAfterDelete(s, arg, r) ==
    StoreOf(r.client, r.collection, r.index, r.records, s.nextId,
            Ghost("delete_document", arg, PublicReturn("delete_document", r), r))

\* vector_db.delete_document_embeddings(doc) on store s; its result is not
\* looked at.
DeleteEmbeddings(s, doc, ch) ==
    StoreAfterDelete(s, DeleteArg(doc),
        SafeCollectionOperation("delete_document", DeleteArg(doc), s.client,
            s.collection, s.index, s.records, s.nextId, ch))

PagesOf(rel, doc) == {p \in rel.pages : p.document_id = doc}

\* session.delete(document); session.commit(): the relationships cascade to
\* the pages of the document and to their elements.
DeleteRows(rel, doc) ==
    [rel EXCEPT
        !.documents = @ \ {doc},
        !.pages = @ \ PagesOf(rel, doc),
        !.elements = {e \in @ : e.page_id \notin {p.id : p \in PagesOf(rel, doc)}}]

\* Where delete_document raises: the query, the commit, or the removal of
\* the PNG directory, which comes after the commit.
DeleteFaults == {"none", "query", "commit", "rmtree"}

\* delete_document(doc) after the vector store became s.
DeleteOutcome(doc, rel, s, fault) ==
    IF fault = "query" \/ doc \notin rel.documents
    THEN [relational |-> rel, ret |-> "False", store |-> s]
    ELSE IF fault = "commit"
    THEN \* session.rollback(); return False
         [relational |-> rel, ret |-> "False", store |-> s]
    ELSE [relational |-> DeleteRows(rel, doc), ret |-> IF fault = "rmtree" THEN "False" ELSE "True",
          store |-> s]

\* The state after a call of the processor on stored documents: out is what
\* it did to the two stores, req its ghost.
AfterRequest(out, req) ==
    /\ relational' = out.relational
    /\ client' = out.store.client
    /\ collection' = out.store.collection
    /\ index' = out.store.index
    /\ records' = out.store.records
    /\ nextId' = out.store.nextId
    /\ lastCall' = out.store.lastCall
    /\ request' = req

DeleteRequest(doc, out) ==
    [document_id |-> doc, op |-> "delete", ret |-> out.ret, items |-> <<>>]

AfterDelete(doc, out) == AfterRequest(out, DeleteRequest(doc, out))

\* DocumentProcessor.delete_document(doc), between two ingestions.
DeleteDocument ==
    /\ ingest.status # "running"
    /\ \E doc \in Docs, fault \in DeleteFaults,
          ch \in ResetChoices(collection, index) :
         /\ fault # "none" => doc \in relational.documents
         /\ AfterDelete(doc,
                DeleteOutcome(doc, relational,
                    DeleteEmbeddings(StoreOf(client, collection, index, records,
                                             nextId, lastCall), doc, ch),
                    fault))
    /\ UNCHANGED <<ingest, rankVars, answerVars, remoteVars, race>>

\* The distances drawn for the hits of a search: 0.1 and 0.6.
SearchDistances == {10000, 60000}

\* The orders in which the store can return the records of set s.
Orderings(s) ==
    {f \in [1..Cardinality(s) -> s] :
        \A i, j \in 1..Cardinality(s) : i # j => f[i] # f[j]}

\* The row PageElement.id == eid joined with its page, as line 252 reads it.
JoinedRow(rel, eid) ==
    IF \E e \in rel.elements, p \in rel.pages : e.id = eid /\ p.id = e.page_id
    THEN LET e == CHOOSE e \in rel.elements : e.id = eid
         IN [element_type |-> e.element_type,
             page_number |-> (CHOOSE p \in rel.pages : p.id = e.page_id).page_number]
    ELSE NoRow

\* The relational rows the hits of a search resolve to.
JoinedTable(rel, recs) ==
    [eid \in {r.element_id : r \in recs} |-> JoinedRow(rel, eid)]

SearchArg(doc, k, sel) == [d |-> doc, e |-> 0, t |-> "", sel |-> sel, k |-> k]

\* The store after search_similar_elements did what
\* _safe_collection_operation reports in r.
StoreAfterSearch(s, arg, r) ==
    StoreOf(r.client, r.collection, r.index, r.records, s.nextId,
            Ghost("search", arg, PublicReturn("search", r), r))

\* What search_similar_elements hands back: None, or the hits in the
\* store's order with their distances.
SearchHits(r, order, ds) ==
    IF r.raised THEN RankInput(TRUE, "None", FALSE, Len(order), <<>>)
    ELSE RankInput(TRUE, "hits", FALSE, Len(order),
             IF r.ids = NoIds THEN <<>>
             ELSE [i \in 1..Len(order) |->
                      [element_id |-> order[i].element_id, distance |-> ds[i]]])

SearchRequest(doc, ret) ==
    [document_id |-> doc, op |-> "search", ret |-> ret.kind, items |-> ret.items]

\* search_similar_content(doc, query, k) given what the store did (r).
AfterSearch(doc, k, arg, r, order, ds) ==
    AfterRequest(
        [relational |-> relational,
         store |-> StoreAfterSearch(StoreOf(client, collection, index, records,
                                            nextId, lastCall), arg, r)],
        SearchRequest(doc,
            SearchSimilarContentResult(
                [SearchHits(r, order, ds) EXCEPT !.top_k = k],
                JoinedTable(relational, records)).ret))

\* DocumentProcessor.search_similar_content(doc, query, k), between two
\* ingestions: the query embedding is not computed and [] is returned, or
\* the store is searched and its hits are resolved and ranked.
SearchDocument ==
    /\ ingest.status # "running"
    /\ \E doc \in Docs :
         \/ /\ request' = [document_id |-> doc, op |-> "search",
                           ret |-> "list", items |-> <<>>]
            /\ UNCHANGED <<relational, storeVars>>
         \/ \E k \in TopKs, ch \in ResetChoices(collection, index),
               sel \in SUBSET Scope(records, doc) :
              /\ Cardinality(sel) = Min(k, Cardinality(Scope(records, doc)))
              /\ \E order \in Orderings(sel),
                    ds \in [1..Cardinality(sel) -> SearchDistances] :
                   /\ Nondecreasing(ds)
                   /\ AfterSearch(doc, k, SearchArg(doc, k, sel),
                          SafeCollectionOperation("search",
                              SearchArg(doc, k, sel), client, collection,
                              index, records, nextId, ch),
                          order, ds)
    /\ UNCHANGED <<ingest, rankVars, answerVars, remoteVars, race>>

\* The pages of a stored document are processed; the ghost log keeps only
\* the page numbers.
IngestPage == ProcessPageOf(Extractions, FALSE)

\* Environment: the index is locked for a while, between two calls.
StoreOutage == IndexFaultOf({"database is locked"})

InitStored ==
    /\ client = "client"
    /\ collection = "collection"
    /\ index = "ok"
    /\ records = {}
    /\ nextId = 0
    /\ lastCall = Ghost("init", NoArg, Ret("none", NoIds, 0, ""), NoCall)
    /\ page_elements = <<>>
    /\ query = NoQuery
    /\ trace = NoTrace
    /\ evidence = Pending
    /\ AnswerUnused
    /\ RemoteUnused
    /\ IngestUnused
    /\ race = NoRace

NextStored ==
    \/ StartDocument
    \/ IngestPage
    \/ DeleteDocument
    \/ SearchDocument
    \/ StoreOutage

SpecStored == InitStored /\ [][NextStored]_vars

-----------------------------------------------------------------------------
(* Properties of stored documents, checked under SpecStored *)

\* C23: deleting a document cascades.  After delete_document(documentId)
\* returned True, the vector store holds no embedding record whose
\* document_id is documentId, and the relational store holds no Document
\* row and no page row of documentId and no element row without its page.
C23_Original ==
    (request.op = "delete" /\ request.ret = "True") =>
        /\ Matching(records, "document_id", request.document_id) = {}
        /\ request.document_id \notin relational.documents
        /\ PagesOf(relational, request.document_id) = {}
        /\ \A e \in relational.elements :
              \E p \in relational.pages : p.id = e.page_id

\* C26: no orphan embedding records.  In every state reached by ingestions
\* and delete_document calls, failed ones included, each record in the
\* vector store refers through its element_id to a committed PageElement
\* row.
C26_Original ==
    \A r \in records : \E e \in relational.elements : e.id = r.element_id

\* C27: every evidence item returned by search_similar_content(documentId,
\* ...) is an element of a page of documentId, with that element's page
\* number and type.
C27_Original ==
    request.op = "search" =>
        \A i \in 1..Len(request.items) :
            \E e \in relational.elements, p \in relational.pages :
                /\ e.id = request.items[i].element_id
                /\ p.id = e.page_id
                /\ p.document_id = request.document_id
                /\ p.page_number = request.items[i].page_number
                /\ e.element_type = request.items[i].element_type

-----------------------------------------------------------------------------
(* Properties of what ingestion stores, checked under SpecIngest *)

\* C25: every element type that page extraction can emit is accepted by
\* the type validation of ingestion.  On every page that was processed
\* without a raised fault, each element the extraction returned (of type
\* TEXT or FLOWCHART) is stored as a PageElement row of that page, with its
\* type.
C25_Original ==
    \A i \in 1..Len(Log) :
        Log[i].fault = "none" =>
            \E p \in PagesOfDocument :
                /\ p.page_number = i
                /\ \A j \in 1..Len(Log[i].elements) :
                      UnitRows(p, Log[i].elements[j]) # {}

-----------------------------------------------------------------------------
(* Properties of a failed ingestion, checked under SpecFaulty *)

\* A step in which process_pdf_document raises out of a page.
FailsOnPage == ingest.status = "running" /\ ingest'.status = "raised"

\* The page that failed had embedded its element before the fault: the
\* element was flushed, the remote call gave a vector and the add went
\* through on a working index.
EmbeddedBeforeFault ==
    /\ ingest'.error = "commit"
    /\ HasEmbeddableElement(ingest'.log[Len(ingest'.log)])
    /\ ingest'.log[Len(ingest'.log)].embedOk
    /\ index = "ok"

\* The add of the failing page ran a collection reset.
ResetOnPage == lastCall' # lastCall /\ lastCall'.resets > 0

-----------------------------------------------------------------------------
(* Properties of the unset collection and of recovery, checked under Spec *)

\* C28: while the collection is unset, every add, search, delete, stats and
\* get-data call fails with its failure value without invoking the
\* operation and without any reset, and leaves the store as it is;
\* is_healthy() returns False; and the collection is set again only by a
\* force_reset.
C28_UnsetStaysUnset ==
    [][collection = "None" =>
          /\ lastCall'.op \in Ops =>
                /\ lastCall'.ret = FailureValue(lastCall'.op, NotInitialized)
                /\ lastCall'.invocations = 0
                /\ lastCall'.resets = 0
                /\ lastCall'.dbResets = 0
                /\ UNCHANGED <<client, collection, index, records, nextId>>
          /\ lastCall'.op = "is_healthy" =>
                /\ lastCall'.ret.kind = "False"
                /\ UNCHANGED <<client, collection, index, records, nextId>>
          /\ collection' # "None" => lastCall'.op = "force_reset"]_vars

\* A search was made while the collection was unset: it returned None
\* after the 'not initialized' error, and nothing was invoked or reset.
C28_Witness ==
    /\ collection = "None"
    /\ lastCall.op = "search"
    /\ lastCall.ret.kind = "None"
    /\ lastCall.firstError = NotInitialized
    /\ lastCall.invocations = 0

\* C29: a successful corruption recovery empties the whole collection
\* before the retry.  After an operation whose collection reset succeeded
\* has returned, the collection holds no record that was there before the
\* operation, whatever its document, and holds at most one record: the one
\* added by the retried operation, when that was an add whose retry
\* succeeded.
C29_RecoveryEmptiesCollection ==
    [][(lastCall'.op \in Ops /\ lastCall'.resets > 0 /\ lastCall'.resetOk) =>
          /\ records' \cap records = {}
          /\ Cardinality(records') <= 1
          /\ \A r \in records' :
                /\ lastCall'.op = "add"
                /\ lastCall'.retryOk
                /\ r.element_id = lastCall'.arg.e
                /\ r.document_id = lastCall'.arg.d
          /\ (lastCall'.op = "add" /\ lastCall'.retryOk) => records' # {}]_vars

\* A second add hit a corruption signature, the collection was reset and
\* the add retried: the record of the first add is gone, the collection
\* holds the record of the second add only.
C29_Witness ==
    /\ lastCall.op = "add"
    /\ lastCall.resets = 1
    /\ lastCall.retryOk
    /\ nextId >= 2
    /\ Cardinality(records) = 1
    /\ \A r \in records : r.id = nextId

-----------------------------------------------------------------------------
(* force_reset beside a search: two requests on the one store *)

\* The records the store holds when the two requests arrive.
RaceRecords ==
    {[document_id |-> "D1", id |-> 1, element_id |-> 1, plain_text |-> "text"],
     [document_id |-> "D1", id |-> 2, element_id |-> 2, plain_text |-> "text"],
     [document_id |-> "D2", id |-> 3, element_id |-> 3, plain_text |-> "text"]}

\* A reset has begun and force_reset has not returned.
ResetInProgress == race.reset \in {"closed", "moved", "created"}

\* _reset_database, lines 79-84: self.client = None.
RaceResetStart ==
    /\ race.reset = "idle"
    /\ client' = "None"
    /\ race' = [race EXCEPT !.reset = "closed", !.pre = records]
    /\ UNCHANGED <<collection, index, records, nextId, lastCall>>
    /\ UNCHANGED <<rankVars, answerVars, remoteVars, ingestVars>>

\* _reset_database, lines 86-98: the store directory is moved away, or
\* removed when the move failed, or stays when both failed.
RaceResetMove ==
    /\ race.reset = "closed"
    /\ \E moveOk, rmOk \in BOOLEAN :
         /\ moveOk => rmOk
         /\ records' = IF moveOk \/ rmOk THEN {} ELSE records
         /\ index' = IF moveOk \/ rmOk THEN "does not exist" ELSE index
         /\ race' = [race EXCEPT !.reset = "moved", !.wiped = moveOk \/ rmOk]
    /\ UNCHANGED <<client, collection, nextId, lastCall>>
    /\ UNCHANGED <<rankVars, answerVars, remoteVars, ingestVars>>

\* _reset_database, lines 100-117: the new client and create_collection,
\* which raises when the old store is still in place; on an exception
\* self.collection = None.
RaceResetCreate ==
    /\ race.reset = "moved"
    /\ \E clientOk, createOk \in BOOLEAN, post \in FreshStates :
         /\ (clientOk /\ createOk) \/ post = "ok"
         /\ client' = IF clientOk THEN "client" ELSE "None"
         /\ collection' =
                IF clientOk /\ createOk
                   /\ (race.wiped \/ index = "does not exist")
                THEN "collection" ELSE "None"
         /\ index' =
                IF clientOk /\ createOk
                   /\ (race.wiped \/ index = "does not exist")
                THEN post ELSE index
         /\ records' =
                IF clientOk /\ createOk
                   /\ (race.wiped \/ index = "does not exist")
                THEN {} ELSE records
    /\ race' = [race EXCEPT !.reset = "created"]
    /\ UNCHANGED <<nextId, lastCall>>
    /\ UNCHANGED <<rankVars, answerVars, remoteVars, ingestVars>>

\* force_reset, line 273: return self.is_healthy().
RaceResetReturn ==
    /\ race.reset = "created"
    /\ race' = [race EXCEPT !.reset = "returned",
                            !.healthy = IsHealthy(collection, index)]
    /\ UNCHANGED storeVars
    /\ UNCHANGED <<rankVars, answerVars, remoteVars, ingestVars>>

\* The state after a search_similar_elements call that did what
\* _safe_collection_operation reports in r.  during is a ghost: the call was
\* made while a reset was in progress.
AfterRaceSearch(doc, arg, r) ==
    /\ client' = r.client
    /\ collection' = r.collection
    /\ index' = r.index
    /\ records' = r.records
    /\ lastCall' = Ghost("search", arg, PublicReturn("search", r), r)
    /\ race' = [race EXCEPT !.search = "returned", !.document_id = doc,
                            !.ret = PublicReturn("search", r).kind,
                            !.ids = PublicReturn("search", r).ids,
                            !.during = ResetInProgress,
                            !.pre = IF race.reset = "idle" THEN records ELSE @]

\* search_similar_elements(query_embedding, doc, top_k) of another request
\* on the same manager: nothing makes it wait for a reset.
RaceSearch ==
    /\ race.search = "idle"
    /\ \E doc \in Docs, ch \in ResetChoices(collection, index) :
         AfterRaceSearch(doc, SearchArg(doc, 5, Scope(records, doc)),
             SafeCollectionOperation("search",
                 SearchArg(doc, 5, Scope(records, doc)), client, collection,
                 index, records, nextId, ch))
    /\ UNCHANGED nextId
    /\ UNCHANGED <<rankVars, answerVars, remoteVars, ingestVars>>

InitRace ==
    /\ client = "client"
    /\ collection = "collection"
    /\ index = "ok"
    /\ records \in SUBSET RaceRecords
    /\ nextId = Cardinality(RaceRecords)
    /\ lastCall = Ghost("init", NoArg, Ret("none", NoIds, 0, ""), NoCall)
    /\ page_elements = <<>>
    /\ query = NoQuery
    /\ trace = NoTrace
    /\ evidence = Pending
    /\ AnswerUnused
    /\ RemoteUnused
    /\ IngestUnused
    /\ race = NoRace

NextRace ==
    \/ RaceResetStart
    \/ RaceResetMove
    \/ RaceResetCreate
    \/ RaceResetReturn
    \/ RaceSearch

SpecRace == InitRace /\ [][NextRace]_vars

-----------------------------------------------------------------------------
(* Property of concurrent requests, checked under SpecRace *)

\* C24: a store reset that runs beside an in-flight search never corrupts
\* the reader's result, because the reset is guarded by mutual exclusion
\* around the whole store: no search is served while a reset is in
\* progress, and a search returns the complete result of the store before
\* the reset, the complete result of the store after it, or None.
C24_Original ==
    race.search = "returned" =>
        /\ ~race.during
        /\ \/ race.ret = "None"
           \/ race.ids = {r.id : r \in Scope(race.pre, race.document_id)}
           \/ race.ids = {r.id : r \in Scope(records, race.document_id)}

====
